---- MODULE Spec2Model ----
(***************************************************************************)
(* Flux daemon core: deployment lock, deploy pipeline (first deploy and    *)
(* blue/green upgrade), host router with in-flight counters, graceful      *)
(* drain, and reconstruction of the registry from the catalog on startup.  *)
(***************************************************************************)
EXTENDS Integers, Sequences, FiniteSets, TLC

\* ------------------------------------------------------------------ bounds
MaxContainers == 3      \* runtime containers ever created
NumSubmitters == 2      \* concurrent POST /deploy handlers
NumRequests   == 2      \* proxied HTTP requests
MaxCrashes    == 2      \* daemon kills in SpecCrash
MaxLines      == 3      \* output lines of one build command in SpecEvents
MaxDeploys    == 2      \* deploy submissions in SpecEvents
MaxAdminOps   == 2      \* start, stop and delete requests in SpecAdmin
MaxStatusLen  == 3      \* containers of a deployment in SpecStatus
MaxPathLen    == 2      \* components of a tar entry name in SpecStage
MaxTarEntries == 2      \* entries of an uploaded archive in SpecStage

\* ------------------------------------------------------- names and hosts
\* An app name is a sequence of "-"-separated tokens; a runtime container is
\* named "<app>-<timestamp>".
Web   == <<"web">>
Names == {Web}
Url(n) == IF n = Web THEN "web.test" ELSE "other.test"
Hosts == {Url(n) : n \in Names}
\* the port of the flux.json an app is submitted with
Port(n) == 8080
NoName == <<>>

Submitters == 1..NumSubmitters
Requests   == 1..NumRequests
CIDs       == 1..MaxContainers
NilC == 0               \* nil *Container / no container id
NilP == 0               \* nil *DeploymentProxy

VARIABLES
    rtContainers,   \* docker: Seq of [name, status, healthy]; index = container id
    rtVolumes,      \* docker: Seq of "present"/"removed"; index = volume id
    dbApps,         \* catalog table apps:        set of [id, name, deployment_id]
    dbDeployments,  \* catalog table deployments: set of [id, url]
    dbContainers,   \* catalog table containers:  set of [id, container_id, head, deployment_id]
    dbVolumes,      \* catalog table volumes:     set of [id, volume_id, container_id]
    dbSeq,          \* AUTOINCREMENT counters per table
    daemon,         \* "up" | "down" | "fatal"
    crashes,        \* number of daemon kills so far
    appManager,     \* registry: name -> [present, ID, DeploymentID]
    deployment,     \* Deployment objects: name -> [live, ID, URL, Head, Containers, Proxy]
    container,      \* Container objects: cid -> [ID, Head, Volumes]
    proxies,        \* DeploymentProxy objects: Seq of [currentHead, activeRequests]
    router,         \* Proxy.deployments: host -> name of the Deployment object
    deployed,       \* DeploymentLock.deployed: set of names
    sub,            \* POST /deploy handlers
    req,            \* proxied requests
    drains,         \* GracefulShutdown goroutines
    gatePassed,     \* history: containers that passed the health gate
    routedTo,       \* history: containers the router has ever pointed a host at
    retiredBy,      \* history: old container -> new head of the upgrade retiring it
    killedInFlight, \* history: a drain removed a container before its deadline
                    \*          while a request forwarded to it was in flight
    stragglers,     \* history: at the last kill, the old containers whose rows were
                    \*          deleted (step h) and that were still in the runtime
    admin,          \* last answer of a start/stop/delete handler: [op, name, code, n]
    stream,         \* event stream of a DeployHandler: channel, consumer, producers
    statusIn,       \* Deployment.Status: what the inspect of each container returns
    statusOut,      \* Deployment.Status: the value returned
    tar,            \* UploadAppCode: the tar entries still to be read
    written         \* UploadAppCode: the paths created on disk

vars == <<rtContainers, rtVolumes, dbApps, dbDeployments, dbContainers, dbVolumes,
          dbSeq, daemon, crashes, appManager, deployment, container, proxies,
          router, deployed, sub, req, drains, gatePassed, routedTo, retiredBy,
          killedInFlight, stragglers, admin, stream, statusIn, statusOut, tar, written>>

auxVars  == <<admin, stream, statusIn, statusOut, tar, written>>

rtVars   == <<rtContainers, rtVolumes>>
dbVars   == <<dbApps, dbDeployments, dbContainers, dbVolumes, dbSeq>>
memVars  == <<appManager, deployment, container, proxies, router, deployed>>
histVars == <<gatePassed, routedTo, retiredBy, killedInFlight, stragglers>>

\* ---------------------------------------------------------------- helpers
RECURSIVE SeqToSet(_)
SeqToSet(q) == IF q = <<>> THEN {} ELSE {Head(q)} \cup SeqToSet(Tail(q))

RECURSIVE FilterSeq(_, _)
FilterSeq(q, keep) ==
    IF q = <<>> THEN <<>>
    ELSE IF Head(q) \in keep THEN <<Head(q)>> \o FilterSeq(Tail(q), keep)
         ELSE FilterSeq(Tail(q), keep)

\* strings.HasPrefix(containerName, "/<prefix>-") on token sequences
IsPrefix(p, n) == Len(p) <= Len(n) /\ SubSeq(n, 1, Len(p)) = p

NoContainerObj == [ID |-> 0, Head |-> FALSE, Volumes |-> <<>>]
NoDeployment   == [live |-> FALSE, ID |-> 0, URL |-> "", Port |-> 0, Head |-> NilC,
                   Containers |-> <<>>, Proxy |-> NilP]
NoApp          == [present |-> FALSE, ID |-> 0, DeploymentID |-> 0]
IdleSub        == [pc |-> "idle", name |-> NoName, url |-> "", port |-> 0,
                   existingContainers |-> {},
                   newContainer |-> NilC, oldProxy |-> NilP, oldContainers |-> <<>>,
                   result |-> "none", overlapped |-> FALSE]
NewReq         == [pc |-> "new", dep |-> NoName, target |-> NilC, outcome |-> "none",
                   headAtStart |-> NilC]

NoAdmin        == [op |-> "none", name |-> NoName, code |-> 0, n |-> 0]
NoConfig       == [Name |-> NoName, Url |-> "", Port |-> 0]
NoStream       == [pc |-> "idle", cfg |-> NoConfig, status |-> 0, channel |-> <<>>,
                   consumer |-> "none", client |-> "none", pipes |-> 0, lines |-> 0,
                   n |-> 0, terminal |-> "none", cancelAt |-> "none",
                   spawned |-> 0, late |-> 0]

\* docker: the container exists (created and not removed)
RtExists(c) == c \in 1..Len(rtContainers) /\ rtContainers[c].status # "removed"

\* the container the router currently forwards host h to (NilC if none)
RoutedHead(rt, dep, px, h) ==
    IF rt[h] = NoName THEN NilC
    ELSE IF dep[rt[h]].Proxy = NilP THEN NilC
         ELSE px[dep[rt[h]].Proxy].currentHead

RoutedHeads(rt, dep, px) == {RoutedHead(rt, dep, px, h) : h \in Hosts} \ {NilC}

\* ------------------------------------------------------------------- Init
InitCore ==
    /\ rtContainers = <<>>
    /\ rtVolumes = <<>>
    /\ dbApps = {}
    /\ dbDeployments = {}
    /\ dbContainers = {}
    /\ dbVolumes = {}
    /\ dbSeq = [apps |-> 0, deployments |-> 0, containers |-> 0, volumes |-> 0]
    /\ daemon = "up"
    /\ crashes = 0
    /\ appManager = [n \in Names |-> NoApp]
    /\ deployment = [n \in Names |-> NoDeployment]
    /\ container = [c \in CIDs |-> NoContainerObj]
    /\ proxies = <<>>
    /\ router = [h \in Hosts |-> NoName]
    /\ deployed = {}
    /\ sub = [s \in Submitters |-> IdleSub]
    /\ req = [r \in Requests |-> NewReq]
    /\ drains = <<>>
    /\ gatePassed = {}
    /\ routedTo = {}
    /\ retiredBy = [c \in CIDs |-> NilC]
    /\ killedInFlight = FALSE
    /\ stragglers = {}

\* no admin request, deploy stream, status query or upload under way
InitAux ==
    /\ admin = NoAdmin
    /\ stream = NoStream
    /\ statusIn = <<>>
    /\ statusOut = "none"
    /\ tar = <<>>
    /\ written = {}

Init == InitCore /\ InitAux

\* ------------------------------------------------------- runtime adapter
\* findExistingDockerContainers: ids of all containers (running or not) whose
\* name starts with "/<prefix>-"
findExistingDockerContainers(prefix) ==
    {c \in 1..Len(rtContainers) : RtExists(c) /\ IsPrefix(prefix, rtContainers[c].name)}

\* RemoveDockerContainer on every container of q, in order: stop then remove;
\* a container that no longer exists makes the call fail and is skipped
RECURSIVE RemoveAll(_, _)
RemoveAll(rt, q) ==
    IF q = <<>> THEN rt
    ELSE LET c == Head(q) IN
         IF c \in 1..Len(rt) /\ rt[c].status # "removed"
         THEN RemoveAll([rt EXCEPT ![c].status = "removed"], Tail(q))
         ELSE RemoveAll(rt, Tail(q))

\* Container.Start on every container of q (existing containers only)
RECURSIVE StartAll(_, _)
StartAll(rt, q) ==
    IF q = <<>> THEN rt
    ELSE StartAll([rt EXCEPT ![Head(q)].status = "running"], Tail(q))

\* Container.Status: the status the runtime reports, or the inspect error
ContainerStatus(c) ==
    IF ~RtExists(c) THEN "inspect error" ELSE rtContainers[c].status

\* Deployment.Status, the loop: q holds what Container.Status returns for each
\* container, in order; the first inspect error is returned, a status that
\* differs from the previous one is a malformed deployment
RECURSIVE StatusFold(_, _)
StatusFold(q, status) ==
    IF q = <<>> THEN status
    ELSE IF Head(q) = "inspect error" THEN "inspect error"
    ELSE IF status # "" /\ status # Head(q) THEN "malformed deployment"
    ELSE StatusFold(Tail(q), Head(q))

\* a variant of the loop that keeps the status of the last container
RECURSIVE StatusFold_LastWins(_, _)
StatusFold_LastWins(q, status) ==
    IF q = <<>> THEN status
    ELSE IF Head(q) = "inspect error" THEN "inspect error"
    ELSE StatusFold_LastWins(Tail(q), Head(q))

StatusErrors == {"inspect error", "malformed deployment", "containers are nil"}

\* a variant of Deployment.Status built on the loop that keeps the last status
StatusOf_LastWins(q) ==
    IF q = <<>> THEN "containers are nil"
    ELSE LET st == StatusFold_LastWins(q, "") IN
         IF st \in StatusErrors THEN st
         ELSE IF st = "running" THEN "running"
         ELSE IF st = "exited" THEN "stopped"
         ELSE "pending"

\* a variant of Deployment.Status that reports exited containers as pending
StatusOf_ExitedPending(q) ==
    IF q = <<>> THEN "containers are nil"
    ELSE LET st == StatusFold(q, "") IN
         IF st \in StatusErrors THEN st
         ELSE IF st = "running" THEN "running"
         ELSE "pending"

\* Deployment.Status on the inspect results q of the deployment's containers
StatusOf(q) ==
    IF q = <<>> THEN "containers are nil"
    ELSE LET st == StatusFold(q, "") IN
         IF st \in StatusErrors THEN st
         ELSE IF st = "running" THEN "running"
         ELSE IF st = "exited" THEN "stopped"
         ELSE "pending"

DeploymentStatus(d) ==
    StatusOf([i \in 1..Len(d.Containers) |-> ContainerStatus(d.Containers[i])])

\* ------------------------------------------------------------ router
\* Deployment.NewDeploymentProxy: a LiveProxy targeting the deployment's head,
\* with no request in flight
NewDeploymentProxy(d) == [currentHead |-> d.Head, activeRequests |-> 0]

\* a variant of AddDeployment that stores nothing
AddDeployment_Dropped(rt, n, d) == rt

\* Proxy.AddDeployment: store (overwrite) the entry of the deployment's host
AddDeployment(rt, n, d) == [rt EXCEPT ![d.URL] = n]

\* ------------------------------------------------------ deployment lock
InFlight(s) == sub[s].pc \notin {"idle", "done"}

\* a variant of the lock that admits every submission
StartDeployment_NoCheck(s, n) ==
    /\ daemon = "up"
    /\ sub[s].pc \in {"idle", "done"}
    /\ deployed' = deployed \cup {n}
    /\ sub' = [sub EXCEPT ![s] = [IdleSub EXCEPT !.pc = "build", !.name = n,
                                                 !.url = Url(n), !.port = Port(n),
                                                 !.overlapped = (n \in deployed)]]
    /\ UNCHANGED <<auxVars, rtVars, dbVars, daemon, crashes, appManager, deployment, container,
                   proxies, router, req, drains, histVars>>

\* a variant of the lock that, on a conflict, cancels and drops the entry of
\* the pipeline in flight
StartDeployment_CancelsHolder(s, n) ==
    /\ daemon = "up"
    /\ sub[s].pc \in {"idle", "done"}
    /\ IF n \in deployed
       THEN /\ sub' = [sub EXCEPT ![s] = [IdleSub EXCEPT !.pc = "done", !.name = n,
                                                        !.result = "conflict",
                                                        !.overlapped = TRUE]]
            /\ deployed' = deployed \ {n}
       ELSE /\ deployed' = deployed \cup {n}
            /\ sub' = [sub EXCEPT ![s] = [IdleSub EXCEPT !.pc = "build", !.name = n,
                                                        !.url = Url(n),
                                                        !.port = Port(n)]]
    /\ UNCHANGED <<auxVars, rtVars, dbVars, daemon, crashes, appManager, deployment, container,
                   proxies, router, req, drains, histVars>>

\* DeployHandler up to the lock, for a flux.json with name n and url u:
\* StartDeployment rejects the submission with Conflict when the name is in
\* the map, else records it
StartDeploymentAt(s, n, u) ==
    /\ daemon = "up"
    /\ sub[s].pc \in {"idle", "done"}
    /\ IF n \in deployed
       THEN /\ sub' = [sub EXCEPT ![s] = [IdleSub EXCEPT !.pc = "done", !.name = n,
                                                        !.result = "conflict",
                                                        !.overlapped = TRUE]]
            /\ UNCHANGED deployed
       ELSE /\ deployed' = deployed \cup {n}
            /\ sub' = [sub EXCEPT ![s] = [IdleSub EXCEPT !.pc = "build", !.name = n,
                                                        !.url = u,
                                                        !.port = Port(n)]]
    /\ UNCHANGED <<auxVars, rtVars, dbVars, daemon, crashes, appManager, deployment, container,
                   proxies, router, req, drains, histVars>>

\* a submission for app n at the url the app is always deployed at
StartDeployment(s, n) == StartDeploymentAt(s, n, Url(n))

\* deferred DeploymentLock.CompleteDeployment: cancel and delete the entry;
\* the handler returns and only its answer is left
CompleteDeployment(s) ==
    /\ daemon = "up"
    /\ sub[s].pc = "release"
    /\ deployed' = deployed \ {sub[s].name}
    /\ sub' = [sub EXCEPT ![s] = [IdleSub EXCEPT !.pc = "done", !.name = sub[s].name,
                                                 !.result = sub[s].result]]
    /\ UNCHANGED <<auxVars, rtVars, dbVars, daemon, crashes, appManager, deployment, container,
                   proxies, router, req, drains, histVars>>

\* ------------------------------------------------------ deploy pipeline
Fail(s) == [sub EXCEPT ![s].pc = "release", ![s].result = "error"]

\* DeployHandler: stage source, prepare, build image; then look the app up
DeployBuild(s) ==
    /\ daemon = "up"
    /\ sub[s].pc = "build"
    /\ \E ok \in BOOLEAN :
         IF ok
         THEN sub' = [sub EXCEPT ![s].pc =
                         IF appManager[sub[s].name].present THEN "upgrade" ELSE "create"]
         ELSE sub' = Fail(s)
    /\ UNCHANGED <<auxVars, rtVars, dbVars, daemon, crashes, memVars, req, drains, histVars>>

\* CreateApp, first half: CreateDeployment (deployments.url is UNIQUE), then
\* CreateContainer: docker volume, docker container, container row (head),
\* volume row; then the app row (apps.name is UNIQUE)
CreateApp(s) ==
    LET n   == sub[s].name
        u   == sub[s].url
        did == dbSeq.deployments + 1
        cid == Len(rtContainers) + 1
        vid == Len(rtVolumes) + 1
        rid == dbSeq.containers + 1
    IN
    /\ daemon = "up"
    /\ sub[s].pc = "create"
    /\ \/ \* the deployment row cannot be inserted: url already taken
          /\ \E d \in dbDeployments : d.url = u
          /\ sub' = Fail(s)
          /\ UNCHANGED <<rtVars, dbVars, deployment, container>>
       \/ \* docker create fails: deployment row and docker volume stay behind
          /\ ~ \E d \in dbDeployments : d.url = u
          /\ dbDeployments' = dbDeployments \cup {[id |-> did, url |-> u, port |-> sub[s].port]}
          /\ dbSeq' = [dbSeq EXCEPT !.deployments = did]
          /\ rtVolumes' = Append(rtVolumes, "present")
          /\ sub' = Fail(s)
          /\ UNCHANGED <<rtContainers, dbApps, dbContainers, dbVolumes, deployment, container>>
       \/ /\ ~ \E d \in dbDeployments : d.url = u
          /\ cid \in CIDs
          \* the first container is never probed by a health gate
          /\ rtContainers' = Append(rtContainers,
                                  [name |-> n, status |-> "created", healthy |-> TRUE,
                                   volume |-> vid, by |-> "CreateContainer"])
          /\ rtVolumes' = Append(rtVolumes, "present")
          /\ dbDeployments' = dbDeployments \cup {[id |-> did, url |-> u, port |-> sub[s].port]}
          /\ dbContainers' = dbContainers \cup
                {[id |-> rid, container_id |-> cid, head |-> TRUE, deployment_id |-> did]}
          /\ dbVolumes' = dbVolumes \cup
                {[id |-> dbSeq.volumes + 1, volume_id |-> vid, mountpoint |-> "/workspace",
                  container_id |-> cid]}
          \* the Container object holds a copy of the volume taken before the
          \* volume row is inserted: its ID stays 0
          /\ container' = [container EXCEPT ![cid] =
                [ID |-> rid, Head |-> TRUE,
                 Volumes |-> << [ID |-> 0, VolumeID |-> vid] >>]]
          /\ deployment' = [deployment EXCEPT ![n] =
                [live |-> TRUE, ID |-> did, URL |-> u, Port |-> sub[s].port, Head |-> cid,
                 Containers |-> <<cid>>, Proxy |-> NilP]]
          /\ IF \E a \in dbApps : a.name = n
             THEN /\ sub' = Fail(s)
                  /\ dbSeq' = [dbSeq EXCEPT !.deployments = did, !.containers = rid,
                                            !.volumes = @ + 1]
                  /\ UNCHANGED dbApps
             ELSE /\ dbApps' = dbApps \cup
                        {[id |-> dbSeq.apps + 1, name |-> n, deployment_id |-> did]}
                  /\ dbSeq' = [apps |-> dbSeq.apps + 1, deployments |-> did,
                               containers |-> rid, volumes |-> dbSeq.volumes + 1]
                  /\ sub' = [sub EXCEPT ![s].pc = "create_start", ![s].newContainer = cid]
    /\ UNCHANGED <<auxVars, daemon, crashes, appManager, proxies, router, deployed, req, drains,
                   histVars>>

\* a variant of AddApp that stores every app
AddApp_Unguarded(am, n, app, d) ==
    [refused |-> FALSE, apps |-> [am EXCEPT ![n] = app]]

\* AppManager.AddApp: panic on an app whose deployment has no containers or
\* no head, else store the app under its name
AddApp(am, n, app, d) ==
    IF d.Containers = <<>> \/ d.Head = NilC
    THEN [refused |-> TRUE, apps |-> am]
    ELSE [refused |-> FALSE, apps |-> [am EXCEPT ![n] = app]]

\* CreateApp, second half: Deployment.Start (start the container, bind a
\* LiveProxy, register with the router), then AppManager.AddApp
CreateAppStart(s) ==
    LET n == sub[s].name
        d == deployment[n]
        p == Len(proxies) + 1
        d2 == [d EXCEPT !.Proxy = p]
        app == [present |-> TRUE, ID |-> dbSeq.apps, DeploymentID |-> d.ID]
    IN
    /\ daemon = "up"
    /\ sub[s].pc = "create_start"
    /\ \/ \* Container.Start fails
          /\ sub' = Fail(s)
          /\ UNCHANGED <<rtContainers, appManager, deployment, proxies, router, routedTo>>
       \/ /\ RtExists(d.Head)
          /\ rtContainers' = StartAll(rtContainers, d.Containers)
          /\ proxies' = Append(proxies, NewDeploymentProxy(d))
          /\ deployment' = [deployment EXCEPT ![n] = d2]
          /\ router' = AddDeployment(router, n, d)
          /\ appManager' = AddApp(appManager, n, app, d2).apps
          /\ routedTo' = routedTo \cup RoutedHeads(router', deployment', proxies')
          /\ sub' = IF AddApp(appManager, n, app, d2).refused THEN Fail(s)
                     ELSE [sub EXCEPT ![s].pc = "release", ![s].result = "complete"]
    /\ UNCHANGED <<auxVars, rtVolumes, dbVars, daemon, crashes, container, deployed, req, drains,
                   gatePassed, retiredBy, killedInFlight, stragglers>>

\* App.Upgrade: query the deployment status; when it is not running, start
\* the deployment first (Deployment.Start binds a LiveProxy if none is bound)
AppUpgrade(s) ==
    LET n  == sub[s].name
        d  == deployment[n]
        st == DeploymentStatus(d)
        p  == Len(proxies) + 1
    IN
    /\ daemon = "up"
    /\ sub[s].pc = "upgrade"
    /\ IF st \in StatusErrors
       THEN /\ sub' = Fail(s)
            /\ UNCHANGED <<rtContainers, deployment, proxies, router, routedTo>>
       ELSE IF st = "running"
       THEN /\ sub' = [sub EXCEPT ![s].pc = "sweep"]
            /\ UNCHANGED <<rtContainers, deployment, proxies, router, routedTo>>
       ELSE /\ rtContainers' = StartAll(rtContainers, d.Containers)
            /\ IF d.Proxy = NilP
               THEN /\ proxies' = Append(proxies, NewDeploymentProxy(d))
                    /\ deployment' = [deployment EXCEPT ![n].Proxy = p]
                    /\ router' = AddDeployment(router, n, d)
               ELSE UNCHANGED <<deployment, proxies, router>>
            /\ routedTo' = routedTo \cup RoutedHeads(router', deployment', proxies')
            /\ sub' = [sub EXCEPT ![s].pc = "sweep"]
    /\ UNCHANGED <<auxVars, rtVolumes, dbVars, daemon, crashes, appManager, container, deployed,
                   req, drains, gatePassed, retiredBy, killedInFlight, stragglers>>

\* Deployment.Upgrade, step a: snapshot of the runtime containers "<name>-*"
UpgradeSweep(s) ==
    /\ daemon = "up"
    /\ sub[s].pc = "sweep"
    /\ sub' = [sub EXCEPT ![s].pc = "container_upgrade",
                          ![s].existingContainers = findExistingDockerContainers(sub[s].name)]
    /\ UNCHANGED <<auxVars, rtVars, dbVars, daemon, crashes, memVars, req, drains, histVars>>

\* UPDATE volumes SET container_id = cid WHERE id = volId
UpdateVolume(rows, volId, cid) ==
    {IF v.id = volId THEN [v EXCEPT !.container_id = cid] ELSE v : v \in rows}

\* Container.Upgrade, volume part: rebind the row whose id is the ID held by
\* the new container's copy of the head's first volume
ContainerUpgrade_Rebind(rows, vol, cid) == UpdateVolume(rows, vol.ID, cid)

\* Container.Upgrade, container row: head is copied from the container upgraded
ContainerUpgrade_Row(rid, cid, c, d) ==
    [id |-> rid, container_id |-> cid, head |-> c.Head, deployment_id |-> d.ID]

\* Deployment.Upgrade, steps b-d: Head.Upgrade creates the new runtime
\* container on the head's first volume, inserts its row and rebinds the
\* volume; the new container becomes deployment.Head and joins Containers
ContainerUpgrade(s) ==
    LET n   == sub[s].name
        d   == deployment[n]
        c   == container[d.Head]
        cid == Len(rtContainers) + 1
        rid == dbSeq.containers + 1
    IN
    /\ daemon = "up"
    /\ sub[s].pc = "container_upgrade"
    /\ \/ \* no volumes on the head, or docker create fails
          /\ sub' = Fail(s)
          /\ UNCHANGED <<rtContainers, dbContainers, dbVolumes, dbSeq, deployment, container>>
       \/ /\ c.Volumes # <<>>
          /\ cid \in CIDs
          /\ \E healthy \in BOOLEAN :
               rtContainers' = Append(rtContainers,
                                  [name |-> n, status |-> "created", healthy |-> healthy,
                                   volume |-> c.Volumes[1].VolumeID, by |-> "Upgrade"])
          /\ dbContainers' = dbContainers \cup {ContainerUpgrade_Row(rid, cid, c, d)}
          /\ dbSeq' = [dbSeq EXCEPT !.containers = rid]
          /\ dbVolumes' = ContainerUpgrade_Rebind(dbVolumes, c.Volumes[1], cid)
          /\ container' = [container EXCEPT ![cid] =
                [ID |-> rid, Head |-> ContainerUpgrade_Row(rid, cid, c, d).head,
                 Volumes |-> << c.Volumes[1] >>]]
          /\ deployment' = [deployment EXCEPT ![n].Head = cid,
                                              ![n].Containers = Append(@, cid)]
          /\ sub' = [sub EXCEPT ![s].pc = "start", ![s].newContainer = cid]
    /\ UNCHANGED <<auxVars, rtVolumes, dbApps, dbDeployments, daemon, crashes, appManager, proxies,
                   router, deployed, req, drains, histVars>>

\* a variant that stops and removes the old generation before starting the new container
UpgradeStart_RemoveOldFirst(s) ==
    LET n == sub[s].name
        c == sub[s].newContainer
        old == FilterSeq(deployment[n].Containers, sub[s].existingContainers)
    IN
    /\ daemon = "up"
    /\ sub[s].pc = "start"
    /\ RtExists(c)
    /\ rtContainers' = [RemoveAll(rtContainers, old) EXCEPT ![c].status = "running"]
    /\ retiredBy' = [x \in CIDs |-> IF x \in SeqToSet(old) THEN c ELSE retiredBy[x]]
    /\ sub' = [sub EXCEPT ![s].pc = "wait"]
    /\ UNCHANGED <<auxVars, rtVolumes, dbVars, daemon, crashes, memVars, req, drains,
                   gatePassed, routedTo, killedInFlight, stragglers>>

\* Deployment.Upgrade, step e (start): Container.Start on the new container;
\* a failure returns the error without undoing anything
UpgradeStart(s) ==
    LET c == sub[s].newContainer IN
    /\ daemon = "up"
    /\ sub[s].pc = "start"
    /\ \/ /\ sub' = Fail(s)
          /\ UNCHANGED rtContainers
       \/ /\ RtExists(c)
          /\ rtContainers' = [rtContainers EXCEPT ![c].status = "running"]
          /\ sub' = [sub EXCEPT ![s].pc = "wait"]
    /\ UNCHANGED <<auxVars, rtVolumes, dbVars, daemon, crashes, memVars, req, drains, histVars>>

\* WaitForDockerContainer: the gate passes when the container is observed
\* running and answers 200 on GET /, and fails at the deadline otherwise
HealthGatePasses(c) ==
    RtExists(c) /\ rtContainers[c].status = "running" /\ rtContainers[c].healthy

\* Deployment.Upgrade, step e (health gate): Container.Wait; a failure
\* returns the error without undoing anything
UpgradeWait(s) ==
    LET c == sub[s].newContainer IN
    /\ daemon = "up"
    /\ sub[s].pc = "wait"
    /\ IF HealthGatePasses(c)
       THEN /\ gatePassed' = gatePassed \cup {c}
            /\ sub' = [sub EXCEPT ![s].pc = "swap"]
       ELSE /\ sub' = Fail(s)
            /\ UNCHANGED gatePassed
    /\ UNCHANGED <<auxVars, rtVars, dbVars, daemon, crashes, memVars, req, drains,
                   routedTo, retiredBy, killedInFlight, stragglers>>

\* a variant of the cutover that keeps the previous LiveProxy bound
UpgradeSwapProxy_KeepOld(s) ==
    /\ daemon = "up"
    /\ sub[s].pc = "swap"
    /\ sub' = [sub EXCEPT ![s].pc = "delete", ![s].oldProxy = NilP]
    /\ UNCHANGED <<auxVars, rtVars, dbVars, daemon, crashes, memVars, req, drains, histVars>>

\* Deployment.Upgrade, steps f-g: update the deployment row, then replace
\* deployment.Proxy by a new LiveProxy on the new head (the cutover: the
\* router holds the Deployment object and reads its Proxy on every request)
UpgradeSwapProxy(s) ==
    LET n == sub[s].name
        d == deployment[n]
        p == Len(proxies) + 1
    IN
    /\ daemon = "up"
    /\ sub[s].pc = "swap"
    /\ IF \E r \in dbDeployments : r.id # d.ID /\ r.url = sub[s].url
       THEN \* deployments.url is UNIQUE: the update fails and the error is returned
            /\ sub' = Fail(s)
            /\ UNCHANGED <<dbDeployments, proxies, deployment, routedTo>>
       ELSE /\ dbDeployments' = {IF r.id = d.ID THEN [r EXCEPT !.url = sub[s].url,
                                                                !.port = sub[s].port] ELSE r :
                                    r \in dbDeployments}
            /\ proxies' = Append(proxies, NewDeploymentProxy(d))
            /\ deployment' = [deployment EXCEPT ![n].Proxy = p]
            /\ routedTo' = routedTo \cup RoutedHeads(router, deployment', proxies')
            /\ sub' = [sub EXCEPT ![s].pc = "delete", ![s].oldProxy = d.Proxy]
    /\ UNCHANGED <<auxVars, rtVars, dbApps, dbContainers, dbVolumes, dbSeq, daemon, crashes,
                   appManager, container, router, deployed, req, drains,
                   gatePassed, retiredBy, killedInFlight, stragglers>>

\* a variant of the deletion that takes every container of the snapshot for
\* an old container of the deployment
UpgradeDeleteOld_Snapshot(s) ==
    LET n   == sub[s].name
        d   == deployment[n]
        old == FilterSeq([i \in 1..MaxContainers |-> i], sub[s].existingContainers)
        ids == {r.id : r \in {x \in dbContainers : x.container_id \in SeqToSet(old)}}
    IN
    /\ daemon = "up"
    /\ sub[s].pc = "delete"
    /\ dbContainers' = {r \in dbContainers : r.id \notin ids}
    /\ retiredBy' = [x \in CIDs |-> IF x \in SeqToSet(old) THEN d.Head ELSE retiredBy[x]]
    /\ sub' = [sub EXCEPT ![s].pc = "handoff", ![s].oldContainers = old]
    /\ UNCHANGED <<auxVars, rtVars, dbApps, dbDeployments, dbVolumes, dbSeq, daemon, crashes,
                   memVars, req, drains, gatePassed, routedTo, killedInFlight, stragglers>>

\* Deployment.Upgrade, step h: in one transaction delete the rows of the
\* deployment's containers that were in the snapshot; they are the old containers
UpgradeDeleteOld(s) ==
    LET n   == sub[s].name
        d   == deployment[n]
        old == FilterSeq(d.Containers, sub[s].existingContainers)
        ids == {container[c].ID : c \in SeqToSet(old)}
    IN
    /\ daemon = "up"
    /\ sub[s].pc = "delete"
    /\ dbContainers' = {r \in dbContainers : r.id \notin ids}
    /\ retiredBy' = [x \in CIDs |-> IF x \in SeqToSet(old) THEN d.Head ELSE retiredBy[x]]
    /\ sub' = [sub EXCEPT ![s].pc = "handoff", ![s].oldContainers = old]
    /\ UNCHANGED <<auxVars, rtVars, dbApps, dbDeployments, dbVolumes, dbSeq, daemon, crashes,
                   memVars, req, drains, gatePassed, routedTo, killedInFlight, stragglers>>

\* Deployment.Upgrade, step i: hand the old containers and the previous
\* LiveProxy to a GracefulShutdown goroutine (or remove them at once when no
\* LiveProxy was bound); keep the other containers; the handler emits complete
UpgradeHandOff(s) ==
    LET n    == sub[s].name
        d    == deployment[n]
        old  == sub[s].oldContainers
        kept == FilterSeq(d.Containers, SeqToSet(d.Containers) \ sub[s].existingContainers)
    IN
    /\ daemon = "up"
    /\ sub[s].pc = "handoff"
    /\ IF sub[s].oldProxy # NilP
       THEN /\ drains' = Append(drains, [proxy |-> sub[s].oldProxy, conts |-> old,
                                         old |-> old, failed |-> {},
                                         expired |-> FALSE, pc |-> "wait"])
            /\ UNCHANGED rtContainers
       ELSE /\ rtContainers' = RemoveAll(rtContainers, old)
            /\ UNCHANGED drains
    /\ deployment' = [deployment EXCEPT ![n].Containers = kept]
    /\ sub' = [sub EXCEPT ![s].pc = "release", ![s].result = "complete"]
    /\ UNCHANGED <<auxVars, rtVolumes, dbVars, daemon, crashes, appManager, container, proxies,
                   router, deployed, req, gatePassed, routedTo, retiredBy, killedInFlight, stragglers>>

\* GracefulShutdown: atomic.LoadInt64(&dp.activeRequests) == 0
DrainCounterIsZero(dr) == proxies[dr.proxy].activeRequests = 0

\* GracefulShutdown: a poll reads the old LiveProxy's counter as zero and
\* the loop is left; while it is not zero the goroutine sleeps and polls again
GracefulShutdown_Poll(i) ==
    /\ daemon = "up"
    /\ i \in 1..Len(drains)
    /\ drains[i].pc = "wait"
    /\ DrainCounterIsZero(drains[i])
    /\ drains' = [drains EXCEPT ![i].pc = "remove"]
    /\ UNCHANGED <<auxVars, rtVars, dbVars, daemon, crashes, memVars, sub, req, histVars>>

\* GracefulShutdown: the context deadline (grace period) passes and the loop
\* is left whatever the counter
GracefulShutdown_Expire(i) ==
    /\ daemon = "up"
    /\ i \in 1..Len(drains)
    /\ drains[i].pc = "wait"
    /\ drains' = [drains EXCEPT ![i].pc = "remove", ![i].expired = TRUE]
    /\ UNCHANGED <<auxVars, rtVars, dbVars, daemon, crashes, memVars, sub, req, histVars>>

\* GracefulShutdown: RemoveDockerContainer (stop, then remove) on the next
\* old container; an error is logged and the loop goes on
GracefulShutdown_Remove(i) ==
    /\ daemon = "up"
    /\ i \in 1..Len(drains)
    /\ drains[i].pc = "remove"
    /\ IF drains[i].conts = <<>>
       THEN /\ drains' = [drains EXCEPT ![i].pc = "done"]
            /\ UNCHANGED <<rtContainers, killedInFlight>>
       ELSE LET c == Head(drains[i].conts) IN
            /\ rtContainers' = RemoveAll(rtContainers, <<c>>)
            /\ killedInFlight' =
                  (killedInFlight \/
                     (/\ RtExists(c)
                      /\ ~drains[i].expired
                      /\ \E r \in Requests : req[r].pc = "upstream" /\ req[r].target = c))
            /\ drains' = [drains EXCEPT ![i].conts = Tail(@),
                                        ![i].pc = IF Tail(drains[i].conts) = <<>>
                                                  THEN "done" ELSE "remove"]
    /\ UNCHANGED <<auxVars, rtVolumes, dbVars, daemon, crashes, memVars, sub, req,
                   gatePassed, routedTo, retiredBy, stragglers>>

\* ---------------------------------------------------- Proxy.ServeHTTP
Finish(r, outcome) == [req EXCEPT ![r] = [NewReq EXCEPT !.pc = "done", !.outcome = outcome]]

\* ServeHTTP: look the Host header up in the deployments map
ServeHTTP_Load(r, h) ==
    /\ daemon = "up"
    /\ req[r].pc = "new"
    /\ \A q \in Requests : q < r => req[q].pc # "new"
    /\ IF router[h] = NoName
       THEN req' = Finish(r, "404")
       ELSE req' = [req EXCEPT ![r].pc = "increment", ![r].dep = router[h],
                               ![r].headAtStart = RoutedHead(router, deployment, proxies, h)]
    /\ UNCHANGED <<auxVars, rtVars, dbVars, daemon, crashes, memVars, sub, drains, histVars>>

\* ServeHTTP: atomic.AddInt64(&deployment.Proxy.activeRequests, 1) on the
\* LiveProxy bound at this moment (a nil Proxy panics the handler)
ServeHTTP_Increment(r) ==
    LET p == deployment[req[r].dep].Proxy IN
    /\ daemon = "up"
    /\ req[r].pc = "increment"
    /\ IF p = NilP
       THEN /\ req' = Finish(r, "panic")
            /\ UNCHANGED proxies
       ELSE /\ proxies' = [proxies EXCEPT ![p].activeRequests = @ + 1]
            /\ req' = [req EXCEPT ![r].pc = "dispatch"]
    /\ UNCHANGED <<auxVars, rtVars, dbVars, daemon, crashes, appManager, deployment, container,
                   router, deployed, sub, drains, histVars>>

\* ServeHTTP: read deployment.Proxy.currentHead and inspect it; the early
\* returns (no head, inspect error) leave the counter as it is
ServeHTTP_Dispatch(r) ==
    LET p == deployment[req[r].dep].Proxy IN
    /\ daemon = "up"
    /\ req[r].pc = "dispatch"
    /\ IF p = NilP THEN req' = Finish(r, "panic")
       ELSE IF proxies[p].currentHead = NilC THEN req' = Finish(r, "no head")
       ELSE IF ~RtExists(proxies[p].currentHead) THEN req' = Finish(r, "500")
       ELSE req' = [req EXCEPT ![r].pc = "upstream", ![r].target = proxies[p].currentHead]
    /\ UNCHANGED <<auxVars, rtVars, dbVars, daemon, crashes, memVars, sub, drains, histVars>>

\* ModifyResponse: atomic.AddInt64(&deployment.Proxy.activeRequests, -1) on
\* the LiveProxy bound when the response arrives
ModifyResponse(px, p) == [px EXCEPT ![p].activeRequests = @ - 1]

\* ServeHTTP: the upstream answers (ModifyResponse runs), or the transport
\* fails (no ErrorHandler is set: the default one answers 502 and the
\* counter is left as it is)
ServeHTTP_Response(r) ==
    LET p == deployment[req[r].dep].Proxy
        c == req[r].target
    IN
    /\ daemon = "up"
    /\ req[r].pc = "upstream"
    /\ \/ /\ RtExists(c) /\ rtContainers[c].status = "running"
          /\ \E status \in {"200", "5xx"} :
               IF p = NilP
               THEN /\ req' = Finish(r, "panic")
                    /\ UNCHANGED proxies
               ELSE /\ proxies' = ModifyResponse(proxies, p)
                    /\ req' = Finish(r, status)
       \/ /\ req' = Finish(r, "502")
          /\ UNCHANGED proxies
    /\ UNCHANGED <<auxVars, rtVars, dbVars, daemon, crashes, appManager, deployment, container,
                   router, deployed, sub, drains, histVars>>

\* ------------------------------------------------------ kill and restart
\* The daemon process is killed: the registry, the router, the LiveProxies,
\* the lock, the handlers and the drain goroutines are gone; the catalog and
\* the runtime stay as they are
Crash ==
    /\ daemon = "up"
    /\ crashes < MaxCrashes
    /\ daemon' = "down"
    /\ crashes' = crashes + 1
    /\ appManager' = [n \in Names |-> NoApp]
    /\ deployment' = [n \in Names |-> NoDeployment]
    /\ container' = [c \in CIDs |-> NoContainerObj]
    /\ proxies' = <<>>
    /\ router' = [h \in Hosts |-> NoName]
    /\ deployed' = {}
    /\ sub' = [s \in Submitters |-> IdleSub]
    /\ req' = [r \in Requests |-> IF req[r].pc \in {"new", "done"} THEN req[r]
                                  ELSE [NewReq EXCEPT !.pc = "done", !.outcome = "killed"]]
    /\ drains' = <<>>
    /\ stragglers' = {c \in CIDs : /\ RtExists(c)
                                   /\ retiredBy[c] # NilC
                                   /\ ~ \E r \in dbContainers : r.container_id = c}
    /\ UNCHANGED <<auxVars, rtVars, dbVars, gatePassed, routedTo, retiredBy, killedInFlight>>

RECURSIVE SortById(_)
SortById(rows) ==
    IF rows = {} THEN <<>>
    ELSE LET m == CHOOSE r \in rows : \A q \in rows : r.id <= q.id
         IN <<m>> \o SortById(rows \ {m})

\* AppManager.Init, per app row: the container rows of its deployment
InitRows(a) == SortById({r \in dbContainers : r.deployment_id = a.deployment_id})
InitHeads(a) == {r \in dbContainers : r.deployment_id = a.deployment_id /\ r.head}

\* AppManager.Init aborts the daemon when a deployment has several heads
\* ("Several containers are marked as head") or none ("head container is nil!")
InitAborts == \E a \in dbApps : Cardinality(InitHeads(a)) # 1

InitVolumes(cid) ==
    LET rows == SortById({v \in dbVolumes : v.container_id = cid})
    IN [i \in 1..Len(rows) |-> [ID |-> rows[i].id, VolumeID |-> rows[i].volume_id]]

InitDeployment(a) ==
    LET rows == InitRows(a)
        heads == {r \in InitHeads(a) : \A q \in InitHeads(a) : q.id <= r.id}
        drows == {d \in dbDeployments : d.id = a.deployment_id}
    IN [live |-> TRUE,
        ID |-> IF drows = {} THEN 0 ELSE (CHOOSE d \in drows : TRUE).id,
        URL |-> IF drows = {} THEN "" ELSE (CHOOSE d \in drows : TRUE).url,
        Port |-> IF drows = {} THEN 0 ELSE (CHOOSE d \in drows : TRUE).port,
        Head |-> IF heads = {} THEN NilC ELSE (CHOOSE r \in heads : TRUE).container_id,
        Containers |-> [i \in 1..Len(rows) |-> rows[i].container_id],
        Proxy |-> NilP]

\* the apps, in row order, whose deployment status is running at startup
RECURSIVE RunningApps(_)
RunningApps(q) ==
    IF q = <<>> THEN <<>>
    ELSE IF DeploymentStatus(InitDeployment(Head(q))) = "running"
         THEN <<Head(q)>> \o RunningApps(Tail(q))
         ELSE RunningApps(Tail(q))

\* NewServer calls AppManager.Init before it assigns Flux.proxy: for the
\* first app whose status is running, Init calls AddDeployment on the nil
\* *Proxy, which panics on its deployments map
InitPanics == RunningApps(SortById(dbApps)) # <<>>

\* AppManager.Init, called by NewServer: rebuild every app from the catalog
\* (deployment row, container rows, their volume rows, the head) and add it
\* to the registry; an app whose status is not running gets no LiveProxy and
\* no router entry
AppManagerInit ==
    LET AppOf(n) == CHOOSE a \in dbApps : a.name = n
    IN
    /\ daemon = "down"
    /\ IF InitAborts \/ InitPanics
       THEN /\ daemon' = "fatal"
            /\ UNCHANGED <<appManager, deployment, container, proxies, router>>
       ELSE /\ daemon' = "up"
            /\ appManager' = [n \in Names |->
                  IF \E a \in dbApps : a.name = n
                  THEN [present |-> TRUE, ID |-> AppOf(n).id,
                        DeploymentID |-> AppOf(n).deployment_id]
                  ELSE NoApp]
            /\ deployment' = [n \in Names |->
                  IF \E a \in dbApps : a.name = n
                  THEN InitDeployment(AppOf(n))
                  ELSE NoDeployment]
            /\ container' = [c \in CIDs |->
                  IF \E a \in dbApps : \E r \in dbContainers :
                        r.deployment_id = a.deployment_id /\ r.container_id = c
                  THEN LET r == CHOOSE r \in dbContainers :
                                   /\ r.container_id = c
                                   /\ \E a \in dbApps : r.deployment_id = a.deployment_id
                       IN [ID |-> r.id, Head |-> r.head, Volumes |-> InitVolumes(c)]
                  ELSE NoContainerObj]
            \* Flux.proxy = &Proxy{} follows Init: an empty router
            /\ proxies' = <<>>
            /\ router' = [h \in Hosts |-> NoName]
    /\ UNCHANGED <<auxVars, rtVars, dbVars, crashes, deployed, sub, req, drains, histVars>>

\* ---------------------------------------------------------- specifications
\* one deploy client, the drains and the proxied requests
Client == {1}

Next ==
    \/ \E s \in Client, n \in Names : StartDeployment(s, n)
    \/ \E s \in Client : DeployBuild(s)
    \/ \E s \in Client : CreateApp(s)
    \/ \E s \in Client : CreateAppStart(s)
    \/ \E s \in Client : AppUpgrade(s)
    \/ \E s \in Client : UpgradeSweep(s)
    \/ \E s \in Client : ContainerUpgrade(s)
    \/ \E s \in Client : UpgradeStart(s)
    \/ \E s \in Client : UpgradeWait(s)
    \/ \E s \in Client : UpgradeSwapProxy(s)
    \/ \E s \in Client : UpgradeDeleteOld(s)
    \/ \E s \in Client : UpgradeHandOff(s)
    \/ \E s \in Client : CompleteDeployment(s)
    \/ \E i \in 1..Len(drains) : GracefulShutdown_Expire(i)
    \/ \E i \in 1..Len(drains) : GracefulShutdown_Poll(i)
    \/ \E i \in 1..Len(drains) : GracefulShutdown_Remove(i)
    \/ \E r \in Requests, h \in Hosts : ServeHTTP_Load(r, h)
    \/ \E r \in Requests : ServeHTTP_Increment(r)
    \/ \E r \in Requests : ServeHTTP_Dispatch(r)
    \/ \E r \in Requests : ServeHTTP_Response(r)

Spec == Init /\ [][Next]_vars

\* concurrent deploy submissions and the drains
NextLock ==
    \/ \E s \in Submitters, n \in Names : StartDeployment(s, n)
    \/ \E s \in Submitters : DeployBuild(s)
    \/ \E s \in Submitters : CreateApp(s)
    \/ \E s \in Submitters : CreateAppStart(s)
    \/ \E s \in Submitters : AppUpgrade(s)
    \/ \E s \in Submitters : UpgradeSweep(s)
    \/ \E s \in Submitters : ContainerUpgrade(s)
    \/ \E s \in Submitters : UpgradeStart(s)
    \/ \E s \in Submitters : UpgradeWait(s)
    \/ \E s \in Submitters : UpgradeSwapProxy(s)
    \/ \E s \in Submitters : UpgradeDeleteOld(s)
    \/ \E s \in Submitters : UpgradeHandOff(s)
    \/ \E s \in Submitters : CompleteDeployment(s)
    \/ \E i \in 1..Len(drains) : GracefulShutdown_Expire(i)
    \/ \E i \in 1..Len(drains) : GracefulShutdown_Poll(i)
    \/ \E i \in 1..Len(drains) : GracefulShutdown_Remove(i)

SpecLock == Init /\ [][NextLock]_vars

\* one deploy client and the drains, with kills and restarts of the daemon
NextCrash ==
    \/ \E s \in Client, n \in Names : StartDeployment(s, n)
    \/ \E s \in Client : DeployBuild(s)
    \/ \E s \in Client : CreateApp(s)
    \/ \E s \in Client : CreateAppStart(s)
    \/ \E s \in Client : AppUpgrade(s)
    \/ \E s \in Client : UpgradeSweep(s)
    \/ \E s \in Client : ContainerUpgrade(s)
    \/ \E s \in Client : UpgradeStart(s)
    \/ \E s \in Client : UpgradeWait(s)
    \/ \E s \in Client : UpgradeSwapProxy(s)
    \/ \E s \in Client : UpgradeDeleteOld(s)
    \/ \E s \in Client : UpgradeHandOff(s)
    \/ \E s \in Client : CompleteDeployment(s)
    \/ \E i \in 1..Len(drains) : GracefulShutdown_Expire(i)
    \/ \E i \in 1..Len(drains) : GracefulShutdown_Poll(i)
    \/ \E i \in 1..Len(drains) : GracefulShutdown_Remove(i)
    \/ Crash
    \/ AppManagerInit

SpecCrash == Init /\ [][NextCrash]_vars

\* one deploy client, the drains and one proxied request: the routing of a
\* request reads the router, the Deployment and its LiveProxy, never the
\* other requests
Probe == {1}

NextRoute ==
    \/ \E s \in Client, n \in Names : StartDeployment(s, n)
    \/ \E s \in Client : DeployBuild(s)
    \/ \E s \in Client : CreateApp(s)
    \/ \E s \in Client : CreateAppStart(s)
    \/ \E s \in Client : AppUpgrade(s)
    \/ \E s \in Client : UpgradeSweep(s)
    \/ \E s \in Client : ContainerUpgrade(s)
    \/ \E s \in Client : UpgradeStart(s)
    \/ \E s \in Client : UpgradeWait(s)
    \/ \E s \in Client : UpgradeSwapProxy(s)
    \/ \E s \in Client : UpgradeDeleteOld(s)
    \/ \E s \in Client : UpgradeHandOff(s)
    \/ \E s \in Client : CompleteDeployment(s)
    \/ \E i \in 1..Len(drains) : GracefulShutdown_Expire(i)
    \/ \E i \in 1..Len(drains) : GracefulShutdown_Poll(i)
    \/ \E i \in 1..Len(drains) : GracefulShutdown_Remove(i)
    \/ \E r \in Probe, h \in Hosts : ServeHTTP_Load(r, h)
    \/ \E r \in Probe : ServeHTTP_Increment(r)
    \/ \E r \in Probe : ServeHTTP_Dispatch(r)
    \/ \E r \in Probe : ServeHTTP_Response(r)

SpecRoute == Init /\ [][NextRoute]_vars

\* ------------------------------------------------------------- properties
\* the pipeline of s has ended an upgrade with `complete` (the handler is
\* about to release the lock and return)
UpgradeCommitted(s) ==
    /\ sub[s].pc = "release"
    /\ sub[s].result = "complete"
    /\ sub[s].oldContainers # <<>>

\* the pipeline of s ended with an error after its new container was started
\* and did not answer 200: the health gate failed
GateFailed(s) ==
    /\ sub[s].pc = "release"
    /\ sub[s].result = "error"
    /\ sub[s].newContainer # NilC
    /\ rtContainers[sub[s].newContainer].status = "running"
    /\ ~rtContainers[sub[s].newContainer].healthy

\* C1: while a pipeline holds the deployment lock of a name, every other
\* submission for that name is rejected with Conflict and is not queued (it is
\* over at once); at most one pipeline per name is in flight, the lock holds
\* exactly the names of the pipelines in flight, and a submission that
\* overlapped another never reaches complete.
C1_OnePipelinePerName ==
    /\ \A s, t \in Submitters :
          (s # t /\ InFlight(s) /\ InFlight(t)) => sub[s].name # sub[t].name
    /\ deployed = {sub[s].name : s \in {t \in Submitters : InFlight(t)}}
    /\ \A s \in Submitters :
          sub[s].overlapped => (sub[s].pc = "done" /\ sub[s].result = "conflict")

\* C1 witness: one submission has reached complete and still holds the lock
\* while another one for the same name was rejected with Conflict
C1_Witness ==
    \E s, t \in Submitters :
       /\ s # t
       /\ sub[s].name = sub[t].name
       /\ sub[s].pc = "release" /\ sub[s].result = "complete"
       /\ sub[t].pc = "done" /\ sub[t].result = "conflict" /\ sub[t].overlapped

\* C2: a runtime container is stopped and removed only as the old generation
\* of an upgrade whose new head has passed the health gate and has been made
\* the target of the router.
C2_NoRemovalBeforeGateAndCutover ==
    \A c \in 1..Len(rtContainers) :
       rtContainers[c].status = "removed" =>
          /\ retiredBy[c] # NilC
          /\ retiredBy[c] \in gatePassed
          /\ retiredBy[c] \in routedTo

\* C2 witness: an upgrade ended with complete and its old container has been
\* removed, after the new head passed the gate and the router was repointed
C2_Witness ==
    \E s \in Submitters : \E c \in 1..Len(rtContainers) :
       /\ UpgradeCommitted(s)
       /\ c \in SeqToSet(sub[s].oldContainers)
       /\ rtContainers[c].status = "removed"
       /\ retiredBy[c] = sub[s].newContainer
       /\ retiredBy[c] \in gatePassed \cap routedTo

\* C3: when the health gate of an upgrade has failed and the pipeline ends,
\* the catalog holds no row for the new container, the new runtime container
\* is gone, and the head of the deployment (catalog and memory) is not the
\* new container.
C3_FailedGateRollsBack ==
    \A s \in Submitters :
       GateFailed(s) =>
          /\ ~ \E r \in dbContainers : r.container_id = sub[s].newContainer
          /\ ~RtExists(sub[s].newContainer)
          /\ deployment[sub[s].name].Head # sub[s].newContainer

C5_CounterBackToZero ==
    (\A r \in Requests : req[r].pc \in {"new", "done"}) =>
       \A p \in 1..Len(proxies) : proxies[p].activeRequests = 0

\* C6: the in-flight counter of every LiveProxy is at least zero.
C6_CounterNeverNegative ==
    \A p \in 1..Len(proxies) : proxies[p].activeRequests >= 0

\* C7: a drain never removes an old container before its grace period has
\* expired while a request forwarded to that container is still in flight.
C7_DrainWaitsForInFlight == ~killedInFlight

\* C8: at most one container row per deployment has head = true, and at most
\* one Container object of a Deployment has Head = true.
C8_AtMostOneHead ==
    /\ \A d \in dbDeployments :
          Cardinality({r \in dbContainers : r.deployment_id = d.id /\ r.head}) <= 1
    /\ \A n \in Names :
          Cardinality({c \in SeqToSet(deployment[n].Containers) : container[c].Head}) <= 1

\* C9: after the commit of an upgrade (the rows of the old containers are
\* deleted) no volume row points at an old container any more: the rows of
\* the old head were rebound to the new container.
C9_VolumesFollowTheHead ==
    \A s \in Submitters :
       (sub[s].pc = "handoff" \/ UpgradeCommitted(s)) =>
          \A v \in dbVolumes : v.container_id \notin SeqToSet(sub[s].oldContainers)

\* the daemon was started again (NewServer has run, to the end or to its
\* panic) after a kill that left old containers without rows in the runtime
RestartedWithStragglers == daemon # "down" /\ crashes > 0 /\ stragglers # {}

\* C10, registry: right after such a restart the daemon serves and the
\* registry holds the app with exactly one head container
C10_RegistryRebuilt ==
    (RestartedWithStragglers /\ sub[1].pc = "idle") =>
       \A n \in Names :
          (\E a \in dbApps : a.name = n) =>
             /\ daemon = "up"
             /\ appManager[n].present
             /\ deployment[n].Head # NilC
             /\ {c \in SeqToSet(deployment[n].Containers) : container[c].Head}
                   = {deployment[n].Head}

\* C10, router: right after such a restart the host is routed to the head
C10_RoutedToHead ==
    (RestartedWithStragglers /\ sub[1].pc = "idle") =>
       \A n \in Names :
          (\E a \in dbApps : a.name = n) =>
             RoutedHead(router, deployment, proxies, Url(n)) = deployment[n].Head

\* C10, sweep: when the next deploy after such a restart has ended with
\* complete and its drain is over, none of the leftover containers is in the
\* runtime any more
C10_StragglersReclaimed ==
    (/\ RestartedWithStragglers
     /\ sub[1].pc = "done" /\ sub[1].result = "complete"
     /\ \A i \in 1..Len(drains) : drains[i].pc = "done") =>
       \A c \in stragglers : ~RtExists(c)

\* C10: after a kill between the deletion of the old rows and the removal of
\* the old runtime containers, the restart rebuilds the registry with exactly
\* one head, the router forwards the host to it, and the next deploy removes
\* the leftover runtime containers.
C10_CrashRecovery ==
    /\ C10_RegistryRebuilt
    /\ C10_RoutedToHead
    /\ C10_StragglersReclaimed

\* -------------------------------------------------- failed pipelines (C12, C13)
\* the handler s has failed a pipeline on an app that was already deployed
FailedUpgrade(s) ==
    /\ sub[s].pc = "release"
    /\ sub[s].result = "error"
    /\ appManager[sub[s].name].present

\* the handler s has failed the first deploy of its app
FailedFirstDeploy(s) ==
    /\ sub[s].pc = "release"
    /\ sub[s].result = "error"
    /\ ~appManager[sub[s].name].present

\* C12: after a failed pipeline on an already-deployed app the container the
\* router forwards the host to is still there and running, and the status of
\* the app (Deployment.Status, as GET /apps reports it) is still running
C12_FailedUpgradeKeepsRunning ==
    \A s \in Submitters :
        FailedUpgrade(s) =>
            LET n == sub[s].name
                h == RoutedHead(router, deployment, proxies, Url(n))
            IN /\ h # NilC
               /\ RtExists(h)
               /\ rtContainers[h].status = "running"
               /\ DeploymentStatus(deployment[n]) = "running"

\* C13: after a failed first deploy no deployment, container, volume or app
\* row written by the pipeline remains in the catalog
C13_FailedCreateRollsBack ==
    \A s \in Submitters :
        FailedFirstDeploy(s) =>
            /\ ~ \E d \in dbDeployments : d.url = Url(sub[s].name)
            /\ ~ \E a \in dbApps : a.name = sub[s].name
            /\ dbContainers = {}
            /\ dbVolumes = {}

\* ------------------------------------------------------------ conflict (C18)
\* the step is a submission of handler s answered with Conflict
RejectedWithConflict(s) ==
    /\ sub[s].pc \in {"idle", "done"}
    /\ sub'[s] # sub[s]
    /\ sub'[s].pc = "done"
    /\ sub'[s].result = "conflict"
    /\ sub'[s].name \in deployed

\* C18: a submission rejected with Conflict leaves the lock map (entry and
\* cancel handle of the pipeline in flight), the pipeline in flight, the
\* catalog, the registry, the router, the runtime and the staged source tree
\* as they were
C18_ConflictChangesNothing ==
    [][\A s \in Submitters :
          RejectedWithConflict(s) =>
             /\ deployed' = deployed
             /\ \A t \in Submitters \ {s} : sub'[t] = sub[t]
             /\ UNCHANGED <<dbVars, rtVars, appManager, deployment, container,
                            proxies, router, drains, written>>]_vars

\* C18 witness: a submission was answered with Conflict while the pipeline
\* holding the name is in the middle of an upgrade, still in the lock map
C18_Witness ==
    \E s, t \in Submitters :
       /\ sub[s].pc = "done" /\ sub[s].result = "conflict"
       /\ sub[t].pc = "wait" /\ sub[t].name = sub[s].name
       /\ sub[t].name \in deployed

\* ------------------------------------------------- Deployment.Status (C17)
\* what a container inspect can return: a docker status or a failure
InspectResults == {"running", "exited", "created", "paused", "inspect error"}

RECURSIVE SeqsUpTo(_, _)
SeqsUpTo(S, n) ==
    IF n = 0 THEN {<<>>}
    ELSE LET shorter == SeqsUpTo(S, n - 1) IN
         shorter \cup {Append(q, x) : q \in {r \in shorter : Len(r) = n - 1}, x \in S}

\* a deployment of 1..MaxStatusLen containers, each with any inspect result
InitStatus ==
    /\ InitCore
    /\ admin = NoAdmin /\ stream = NoStream /\ tar = <<>> /\ written = {}
    /\ statusIn \in SeqsUpTo(InspectResults, MaxStatusLen) \ {<<>>}
    /\ statusOut = "none"

\* GET /apps on the deployment: Deployment.Status is applied
Status ==
    /\ statusOut = "none"
    /\ statusIn # <<>>
    /\ statusOut' = StatusOf(statusIn)
    /\ UNCHANGED <<rtVars, dbVars, daemon, crashes, memVars, sub, req, drains, histVars,
                   admin, stream, statusIn, tar, written>>

NextStatus == Status

SpecStatus == InitStatus /\ [][NextStatus]_vars

AllReport(q, x) == \A i \in 1..Len(q) : q[i] = x

\* C17: Deployment.Status returns an error when an inspect fails; otherwise
\* running iff all containers report running, stopped iff all report
\* exited, pending iff all agree on another status, and a malformed
\* deployment error iff two containers report different statuses
C17_StatusAggregation ==
    statusOut # "none" =>
        IF \E i \in 1..Len(statusIn) : statusIn[i] = "inspect error"
        THEN statusOut \in {"inspect error", "malformed deployment"}
        ELSE /\ statusOut = "running" <=> AllReport(statusIn, "running")
             /\ statusOut = "stopped" <=> AllReport(statusIn, "exited")
             /\ statusOut = "pending" <=>
                   \E x \in InspectResults \ {"running", "exited"} : AllReport(statusIn, x)
             /\ statusOut = "malformed deployment" <=>
                   \E i, j \in 1..Len(statusIn) : statusIn[i] # statusIn[j]

\* C17 witness: three containers, the last one disagrees with the first two
C17_Witness ==
    /\ statusIn = <<"running", "running", "exited">>
    /\ statusOut = "malformed deployment"

\* ------------------------------------------------- UploadAppCode (C20)
\* paths are sequences of components; the root directory is absolute
RootDir == <<"root">>

\* filepath.Join(s.rootDir, "apps", projectConfig.Name)
ProjectPath(n) == RootDir \o <<"apps">> \o n

\* filepath.Clean on a rooted path: ".." removes the component before it, and
\* is dropped at the root
RECURSIVE Clean(_, _)
Clean(done, rest) ==
    IF rest = <<>> THEN done
    ELSE IF Head(rest) = ".."
         THEN Clean(IF done = <<>> THEN <<>> ELSE SubSeq(done, 1, Len(done) - 1), Tail(rest))
         ELSE Clean(Append(done, Head(rest)), Tail(rest))

\* filepath.Join(projectPath, header.Name): the elements are joined with a
\* separator and the result is cleaned; a leading separator of header.Name
\* disappears in the join
Join(projectPath, name) == Clean(<<>>, projectPath \o name.parts)

\* filepath.Dir
Dir(path) == IF path = <<>> THEN <<>> ELSE SubSeq(path, 1, Len(path) - 1)

Prefixes(path) == {SubSeq(path, 1, k) : k \in 1..Len(path)}

\* the directories that exist: those of the project path and those created
IsDir(n, path) ==
    \/ path \in Prefixes(ProjectPath(n)) \cup {<<>>}
    \/ [path |-> path, kind |-> "dir"] \in written
IsFile(path) == [path |-> path, kind |-> "file"] \in written

\* os.MkdirAll(path) succeeds unless a component of path is a regular file
MkdirAllFails(path) == \E q \in Prefixes(path) : IsFile(q)

\* os.MkdirAll(path): the directories it creates
MkdirAll(n, path) ==
    {[path |-> q, kind |-> "dir"] : q \in {r \in Prefixes(path) : ~IsDir(n, r)}}

TarComponents == {"..", "src"}
TarTypes      == {"dir", "reg", "symlink"}
TarNames      == [parts : SeqsUpTo(TarComponents, MaxPathLen) \ {<<>>}, abs : BOOLEAN]
TarEntries    == [Name : TarNames, Typeflag : TarTypes]

\* an upload for app web is about to be extracted: any archive of at most
\* MaxTarEntries entries
InitStage ==
    /\ InitCore
    /\ stream = NoStream /\ statusIn = <<>> /\ statusOut = "none"
    /\ admin = [NoAdmin EXCEPT !.op = "upload", !.name = Web]
    /\ tar \in SeqsUpTo(TarEntries, MaxTarEntries)
    /\ written = {}

\* UploadAppCode, one turn of the loop: tarReader.Next returned a header
UploadAppCode_Entry ==
    LET n      == admin.name
        header == Head(tar)
        path   == Join(ProjectPath(n), header.Name)
        failed == /\ admin' = [admin EXCEPT !.op = "upload failed"]
                  /\ tar' = <<>>
                  /\ UNCHANGED written
    IN
    /\ admin.op = "upload"
    /\ tar # <<>>
    /\ IF header.Typeflag = "dir"
       THEN IF MkdirAllFails(path) THEN failed
            ELSE /\ written' = written \cup MkdirAll(n, path)
                 /\ tar' = Tail(tar)
                 /\ UNCHANGED admin
       ELSE IF header.Typeflag = "reg"
       THEN IF MkdirAllFails(Dir(path)) \/ IsDir(n, path) THEN failed
            ELSE /\ written' = written \cup MkdirAll(n, Dir(path))
                                       \cup {[path |-> path, kind |-> "file"]}
                 /\ tar' = Tail(tar)
                 /\ UNCHANGED admin
       ELSE /\ tar' = Tail(tar)
            /\ UNCHANGED <<admin, written>>
    /\ UNCHANGED <<rtVars, dbVars, daemon, crashes, memVars, sub, req, drains, histVars,
                   stream, statusIn, statusOut>>

\* UploadAppCode: tarReader.Next returned io.EOF, the project path is returned
UploadAppCode_EOF ==
    /\ admin.op = "upload"
    /\ tar = <<>>
    /\ admin' = [admin EXCEPT !.op = "uploaded"]
    /\ UNCHANGED <<rtVars, dbVars, daemon, crashes, memVars, sub, req, drains, histVars,
                   stream, statusIn, statusOut, tar, written>>

NextStage ==
    \/ UploadAppCode_Entry
    \/ UploadAppCode_EOF

SpecStage == InitStage /\ [][NextStage]_vars

\* C20: staging writes no file or directory outside <root>/apps/<name>/,
\* whatever the names of the tar entries are (absolute, or with ".."
\* components that leave the project directory)
C20_PathConfinement ==
    \A w \in written : IsPrefix(ProjectPath(admin.name), w.path)

\* ------------------------------------------- start, stop, delete handlers
\* Proxy.RemoveDeployment: delete the entry of the deployment's host
RemoveDeployment(rt, d) == [rt EXCEPT ![d.URL] = NoName]

\* Container.Stop on every container of q: a running container exits, a
\* container that is not running stays as it is
RECURSIVE StopAll(_, _)
StopAll(rt, q) ==
    IF q = <<>> THEN rt
    ELSE StopAll([rt EXCEPT ![Head(q)].status =
                      IF @ = "running" THEN "exited" ELSE @], Tail(q))

\* the answer of an admin handler
Answer(op, n, code) == [op |-> op, name |-> n, code |-> code, n |-> admin.n + 1]

\* StartDeployHandler
StartDeployHandler(n) ==
    LET d  == deployment[n]
        st == DeploymentStatus(d)
        p  == Len(proxies) + 1
    IN
    /\ daemon = "up"
    /\ admin.n < MaxAdminOps
    /\ IF ~appManager[n].present
       THEN /\ admin' = Answer("start", n, 404)
            /\ UNCHANGED <<rtContainers, deployment, proxies, router, routedTo>>
       ELSE IF st \in StatusErrors
       THEN /\ admin' = Answer("start", n, 500)
            /\ UNCHANGED <<rtContainers, deployment, proxies, router, routedTo>>
       ELSE IF st = "running"
       THEN /\ admin' = Answer("start", n, 400)
            /\ UNCHANGED <<rtContainers, deployment, proxies, router, routedTo>>
       ELSE /\ rtContainers' = StartAll(rtContainers, d.Containers)
            /\ IF d.Proxy = NilP
               THEN /\ proxies' = Append(proxies, NewDeploymentProxy(d))
                    /\ deployment' = [deployment EXCEPT ![n].Proxy = p]
                    /\ router' = AddDeployment(router, n, d)
               ELSE UNCHANGED <<deployment, proxies, router>>
            /\ routedTo' = routedTo \cup RoutedHeads(router', deployment', proxies')
            /\ admin' = Answer("start", n, 200)
    /\ UNCHANGED <<rtVolumes, dbVars, daemon, crashes, appManager, container, deployed,
                   sub, req, drains, gatePassed, retiredBy, killedInFlight, stragglers,
                   stream, statusIn, statusOut, tar, written>>

\* StopDeployHandler
StopDeployHandler(n) ==
    LET d  == deployment[n]
        st == DeploymentStatus(d)
    IN
    /\ daemon = "up"
    /\ admin.n < MaxAdminOps
    /\ IF ~appManager[n].present
       THEN /\ admin' = Answer("stop", n, 404)
            /\ UNCHANGED <<rtContainers, deployment, router>>
       ELSE IF st \in StatusErrors
       THEN /\ admin' = Answer("stop", n, 500)
            /\ UNCHANGED <<rtContainers, deployment, router>>
       ELSE IF st = "stopped"
       THEN /\ admin' = Answer("stop", n, 400)
            /\ UNCHANGED <<rtContainers, deployment, router>>
       ELSE /\ rtContainers' = StopAll(rtContainers, d.Containers)
            /\ router' = RemoveDeployment(router, d)
            /\ deployment' = [deployment EXCEPT ![n].Proxy = NilP]
            /\ admin' = Answer("stop", n, 200)
    /\ UNCHANGED <<rtVolumes, dbVars, daemon, crashes, appManager, container, proxies,
                   deployed, sub, req, drains, histVars,
                   stream, statusIn, statusOut, tar, written>>

\* docker: the volume is mounted by a container that exists
VolumeInUse(rt, vid) ==
    \E c \in 1..Len(rt) : rt[c].status # "removed" /\ rt[c].volume = vid

\* Container.Remove, the loop over c.Volumes inside the transaction:
\* RemoveVolume (docker refuses a volume in use), then the volume rows
RECURSIVE RemoveVolumes(_, _)
RemoveVolumes(st, vols) ==
    IF vols = <<>> THEN st
    ELSE LET vid == Head(vols).VolumeID IN
         IF VolumeInUse(st.rt, vid) THEN [st EXCEPT !.err = TRUE]
         ELSE RemoveVolumes(
                 [st EXCEPT !.vol = [i \in 1..Len(st.vol) |->
                                        IF i = vid THEN "removed" ELSE st.vol[i]],
                            !.vrows = {v \in st.vrows : v.volume_id # vid}],
                 Tail(vols))

\* Container.Remove: RemoveDockerContainer (an error when the container does
\* not exist), then in one transaction the container row and the volumes;
\* an error rolls the rows back, not the runtime
ContainerRemove(st, c) ==
    IF ~(c \in 1..Len(st.rt) /\ st.rt[c].status # "removed")
    THEN [st EXCEPT !.err = TRUE]
    ELSE LET st1 == [st EXCEPT !.rt[c].status = "removed"]
             st2 == RemoveVolumes(
                       [st1 EXCEPT !.rows = {r \in st.rows : r.container_id # c}],
                       container[c].Volumes)
         IN IF st2.err THEN [st2 EXCEPT !.rows = st.rows, !.vrows = st.vrows]
            ELSE st2

\* Deployment.Remove, the loop: Container.Remove on each container, up to
\* the first error
RECURSIVE RemoveContainers(_, _)
RemoveContainers(st, q) ==
    IF q = <<>> \/ st.err THEN st
    ELSE RemoveContainers(ContainerRemove(st, Head(q)), Tail(q))

\* App.Remove: the app leaves the registry first; then Deployment.Remove
\* (containers, then the deployment row), then the app row. The router is
\* not touched
AppRemove(st, n) ==
    LET st1 == RemoveContainers([st EXCEPT !.apps[n] = NoApp], deployment[n].Containers)
    IN IF st1.err THEN st1
       ELSE [st1 EXCEPT !.drows = {r \in st1.drows : r.id # deployment[n].ID},
                        !.arows = {r \in st1.arows : r.id # appManager[n].ID}]

\* the state App.Remove works on
RemoveState ==
    [rt |-> rtContainers, vol |-> rtVolumes, rows |-> dbContainers, vrows |-> dbVolumes,
     drows |-> dbDeployments, arows |-> dbApps, apps |-> appManager, err |-> FALSE]

\* DeleteDeployHandler: AppManager.DeleteApp; any error is answered 404
DeleteDeployHandler(n) ==
    LET st == AppRemove(RemoveState, n) IN
    /\ daemon = "up"
    /\ admin.n < MaxAdminOps
    /\ IF ~appManager[n].present
       THEN /\ admin' = Answer("delete", n, 404)
            /\ UNCHANGED <<rtVars, dbApps, dbDeployments, dbContainers, dbVolumes, appManager>>
       ELSE /\ rtContainers' = st.rt
            /\ rtVolumes' = st.vol
            /\ dbContainers' = st.rows
            /\ dbVolumes' = st.vrows
            /\ dbDeployments' = st.drows
            /\ dbApps' = st.arows
            /\ appManager' = st.apps
            /\ admin' = Answer("delete", n, IF st.err THEN 404 ELSE 200)
    /\ UNCHANGED <<dbSeq, daemon, crashes, deployment, container, proxies, router,
                   deployed, sub, req, drains, histVars,
                   stream, statusIn, statusOut, tar, written>>

\* DeleteAllDeploymentsHandler, the loop: App.Remove on every app of the
\* registry, up to the first error
RECURSIVE RemoveApps(_, _)
RemoveApps(st, q) ==
    IF q = <<>> \/ st.err THEN st
    ELSE RemoveApps(AppRemove(st, Head(q)), Tail(q))

\* AppManager.GetAllApps
GetAllApps == SortById({[id |-> appManager[n].ID, name |-> n] :
                           n \in {m \in Names : appManager[m].present}})

\* DeleteAllDeploymentsHandler
DeleteAllDeploymentsHandler ==
    LET apps == GetAllApps
        st   == RemoveApps(RemoveState, [i \in 1..Len(apps) |-> apps[i].name])
    IN
    /\ daemon = "up"
    /\ admin.n < MaxAdminOps
    /\ rtContainers' = st.rt
    /\ rtVolumes' = st.vol
    /\ dbContainers' = st.rows
    /\ dbVolumes' = st.vrows
    /\ dbDeployments' = st.drows
    /\ dbApps' = st.arows
    /\ appManager' = st.apps
    /\ admin' = Answer("delete all", NoName, IF st.err THEN 500 ELSE 200)
    /\ UNCHANGED <<dbSeq, daemon, crashes, deployment, container, proxies, router,
                   deployed, sub, req, drains, histVars,
                   stream, statusIn, statusOut, tar, written>>

\* one deploy client, the drains, kills and restarts of the daemon, and the
\* start, stop and delete requests
NextAdmin ==
    \/ \E s \in Client, n \in Names : StartDeployment(s, n)
    \/ \E s \in Client : DeployBuild(s)
    \/ \E s \in Client : CreateApp(s)
    \/ \E s \in Client : CreateAppStart(s)
    \/ \E s \in Client : AppUpgrade(s)
    \/ \E s \in Client : UpgradeSweep(s)
    \/ \E s \in Client : ContainerUpgrade(s)
    \/ \E s \in Client : UpgradeStart(s)
    \/ \E s \in Client : UpgradeWait(s)
    \/ \E s \in Client : UpgradeSwapProxy(s)
    \/ \E s \in Client : UpgradeDeleteOld(s)
    \/ \E s \in Client : UpgradeHandOff(s)
    \/ \E s \in Client : CompleteDeployment(s)
    \/ \E i \in 1..Len(drains) : GracefulShutdown_Expire(i)
    \/ \E i \in 1..Len(drains) : GracefulShutdown_Poll(i)
    \/ \E i \in 1..Len(drains) : GracefulShutdown_Remove(i)
    \/ Crash
    \/ AppManagerInit
    \/ \E n \in Names : StartDeployHandler(n)
    \/ \E n \in Names : StopDeployHandler(n)
    \/ \E n \in Names : DeleteDeployHandler(n)
    \/ DeleteAllDeploymentsHandler

SpecAdmin == Init /\ [][NextAdmin]_vars

\* the step is the handler op answering code
Answered(op, code) ==
    /\ admin'.n = admin.n + 1
    /\ admin'.op = op
    /\ admin'.code = code

\* C14: after DELETE /deployments/{name} has answered 200 for an app of the
\* registry, every container of its deployment is gone from the runtime with
\* its volume, the container, volume, deployment and app rows are deleted,
\* the app is absent from the registry and the router has no entry for the
\* deployment's host
C14_DeleteRemovesEverything ==
    [][\A n \in Names :
          (Answered("delete", 200) /\ admin'.name = n /\ appManager[n].present) =>
             LET d == deployment[n] IN
             /\ \A c \in SeqToSet(d.Containers) :
                   /\ rtContainers'[c].status = "removed"
                   /\ rtVolumes'[rtContainers[c].volume] = "removed"
                   /\ ~ \E r \in dbContainers' : r.container_id = c
                   /\ ~ \E v \in dbVolumes' : v.volume_id = rtContainers[c].volume
             /\ ~ \E r \in dbDeployments' : r.id = d.ID
             /\ ~ \E a \in dbApps' : a.name = n
             /\ ~appManager'[n].present
             /\ router'[d.URL] = NoName]_vars

\* C15: after DELETE /deployments has answered 200 the registry is empty and
\* the runtime holds no container named after an app that was deleted
C15_DeleteAllLeavesNothing ==
    [][Answered("delete all", 200) =>
          /\ \A n \in Names : ~appManager'[n].present
          /\ \A n \in Names :
                appManager[n].present =>
                   ~ \E c \in 1..Len(rtContainers') :
                        /\ rtContainers'[c].status # "removed"
                        /\ IsPrefix(n, rtContainers'[c].name)]_vars

\* C16: after a stop answered 200 every container of the deployment is
\* stopped, the router has no entry for the deployment's host and the
\* deployment holds no LiveProxy; after the next start answered 200 the
\* router has an entry for the host again, it targets the deployment's
\* head, and the status is running
C16_StopThenStart ==
    [][\A n \in Names :
          /\ (Answered("stop", 200) /\ admin'.name = n) =>
                /\ \A c \in SeqToSet(deployment[n].Containers) :
                      rtContainers'[c].status \notin {"running", "removed"}
                /\ router'[deployment[n].URL] = NoName
                /\ deployment'[n].Proxy = NilP
          /\ (/\ admin.op = "stop" /\ admin.code = 200 /\ admin.name = n
              /\ Answered("start", 200) /\ admin'.name = n) =>
                /\ router'[deployment'[n].URL] = n
                /\ RoutedHead(router, deployment, proxies, deployment[n].URL)'
                      = deployment'[n].Head
                /\ DeploymentStatus(deployment[n])' = "running"]_vars

\* ------------------------------------------ DeployHandler, the event stream
\* make(chan DeploymentEvent, 10)
EventCap == 10

\* the flux.json of a submission: the name may be empty, the url may be
\* empty, the port may be 0
Configs == [Name : {Web, NoName}, Url : {Url(Web), ""}, Port : {0, 8080}]

ConfigInvalid(cfg) == cfg.Name = NoName \/ cfg.Url = "" \/ cfg.Port = 0

\* eventChannel <- event blocks while the buffer is full
CanSend == Len(stream.channel) < EventCap

\* what the consumer looks at in an event: whether its Stage ends the stream
Kind(stage) == IF stage \in {"error", "complete"} THEN stage ELSE "event"

Send(st, stage) == [st EXCEPT !.channel = Append(@, Kind(stage))]

PipelineFrame == <<rtVars, dbVars, daemon, crashes, appManager, deployment, container,
                   proxies, router, req, drains, histVars, admin, statusIn, statusOut, tar>>

\* DeployHandler up to the consumer goroutine: the config is decoded, the
\* lock is taken on its name (Conflict when held), the 207 header is written
\* and the consumer of the event channel is started
DeployHandler_Lock(s, cfg) ==
    /\ daemon = "up"
    /\ stream.pc \in {"idle", "returned"}
    /\ stream.n < MaxDeploys
    /\ sub[s].pc \in {"idle", "done"}
    /\ IF cfg.Name \in deployed
       THEN /\ stream' = [NoStream EXCEPT !.pc = "returned", !.cfg = cfg, !.status = 409,
                                          !.n = stream.n + 1]
            /\ sub' = [sub EXCEPT ![s] = [IdleSub EXCEPT !.pc = "done", !.name = cfg.Name,
                                                        !.result = "conflict",
                                                        !.overlapped = TRUE]]
            /\ UNCHANGED deployed
       ELSE /\ deployed' = deployed \cup {cfg.Name}
            /\ sub' = [sub EXCEPT ![s] = [IdleSub EXCEPT !.pc = "build", !.name = cfg.Name,
                                                        !.url = cfg.Url,
                                                        !.port = cfg.Port]]
            /\ stream' = [NoStream EXCEPT !.pc = "start", !.cfg = cfg, !.status = 207,
                                          !.consumer = "running", !.client = "reading",
                                          !.n = stream.n + 1]
    /\ UNCHANGED <<PipelineFrame, written>>

\* DeployHandler: the start event; then the code archive is looked up and
\* the config validated (name, url and port must be there)
DeployHandler_Start(s) ==
    /\ stream.pc = "start"
    /\ CanSend
    /\ \E hasCode \in BOOLEAN :
         stream' = [Send(stream, "start") EXCEPT !.pc =
                       IF ~hasCode \/ ConfigInvalid(stream.cfg) THEN "error" ELSE "upload"]
    /\ UNCHANGED <<PipelineFrame, written, deployed, sub>>

\* DeployHandler: an error event is sent and the handler returns
DeployHandler_Error(s) ==
    /\ stream.pc = "error"
    /\ CanSend
    /\ stream' = [Send(stream, "error") EXCEPT !.pc = "wait"]
    /\ sub' = Fail(s)
    /\ UNCHANGED <<PipelineFrame, written, deployed>>

\* DeployHandler: UploadAppCode stages the archive under the project path
DeployHandler_Upload(s) ==
    /\ stream.pc = "upload"
    /\ \E ok \in BOOLEAN :
         /\ stream' = [stream EXCEPT !.pc = IF ok THEN "preparing" ELSE "error"]
         /\ written' = written \cup
                {[path |-> ProjectPath(stream.cfg.Name), kind |-> "dir"]}
    /\ UNCHANGED <<PipelineFrame, deployed, sub>>

\* DeployHandler: the preparing event; go generate is started with a
\* streamPipe goroutine on its stdout and one on its stderr (in the schedule
\* where both goroutines run their wg.Add before the handler goes on)
DeployHandler_Preparing(s) ==
    /\ stream.pc = "preparing"
    /\ CanSend
    /\ \E k \in 0..MaxLines :
         stream' = [Send(stream, "preparing") EXCEPT !.pc = "prepare",
                                                     !.pipes = @ + 2, !.lines = @ + k]
    /\ UNCHANGED <<PipelineFrame, written, deployed, sub>>

\* DeployHandler: prepareCmd.Run returns
DeployHandler_Prepare(s) ==
    /\ stream.pc = "prepare"
    /\ \E ok \in BOOLEAN :
         stream' = [stream EXCEPT !.pc = IF ok THEN "building" ELSE "error"]
    /\ UNCHANGED <<PipelineFrame, written, deployed, sub>>

\* DeployHandler: the building event; pack build is started with its two
\* streamPipe goroutines
DeployHandler_Building(s) ==
    /\ stream.pc = "building"
    /\ CanSend
    /\ \E k \in 0..MaxLines :
         stream' = [Send(stream, "building") EXCEPT !.pc = "build",
                                                    !.pipes = @ + 2, !.lines = @ + k]
    /\ UNCHANGED <<PipelineFrame, written, deployed, sub>>

\* DeployHandler: buildCmd.Run returns
DeployHandler_Build(s) ==
    /\ stream.pc = "build"
    /\ \E ok \in BOOLEAN :
         stream' = [stream EXCEPT !.pc = IF ok THEN "creating" ELSE "error"]
    /\ UNCHANGED <<PipelineFrame, written, deployed, sub>>

\* DeployHandler: the app is looked up, the creating event is sent, and
\* CreateApp or App.Upgrade is entered
DeployHandler_Creating(s) ==
    /\ stream.pc = "creating"
    /\ CanSend
    /\ stream' = [Send(stream, "creating") EXCEPT !.pc = "pipeline"]
    /\ sub' = [sub EXCEPT ![s].pc =
                  IF appManager[sub[s].name].present THEN "upgrade" ELSE "create"]
    /\ UNCHANGED <<PipelineFrame, written, deployed>>

\* DeployHandler: CreateApp or App.Upgrade has returned; the complete event,
\* or the error event, is sent and the handler returns
DeployHandler_Final(s) ==
    /\ stream.pc = "pipeline"
    /\ sub[s].pc = "release"
    /\ CanSend
    /\ stream' = [Send(stream, sub[s].result) EXCEPT !.pc = "wait"]
    /\ UNCHANGED <<PipelineFrame, written, deployed, sub>>

\* DeployHandler, the deferred calls in their order: wg.Wait (the consumer
\* and every streamPipe have returned), close(eventChannel), and
\* CompleteDeployment, which cancels the context and deletes the lock entry
DeployHandler_Return(s) ==
    /\ stream.pc = "wait"
    /\ stream.consumer = "exited"
    /\ stream.pipes = 0
    /\ deployed' = deployed \ {stream.cfg.Name}
    /\ sub' = [sub EXCEPT ![s] = [IdleSub EXCEPT !.pc = "done", !.name = sub[s].name,
                                                 !.result = sub[s].result]]
    /\ stream' = [NoStream EXCEPT !.pc = "returned", !.cfg = stream.cfg,
                                  !.status = stream.status, !.n = stream.n]
    /\ UNCHANGED <<PipelineFrame, written>>

\* the command of the running streamPipes has exited (Run has returned)
CommandExited == stream.pc \notin {"prepare", "build"}

\* streamPipe: a line of output is sent as a cmd_output event
StreamPipe_Line ==
    /\ stream.pipes > 0
    /\ stream.lines > 0
    /\ CanSend
    /\ stream' = [Send(stream, "cmd_output") EXCEPT !.lines = @ - 1]
    /\ UNCHANGED <<PipelineFrame, written, deployed, sub>>

\* streamPipe: the scanner reaches the end of the pipe
StreamPipe_EOF ==
    /\ stream.pipes > 0
    /\ stream.lines = 0
    /\ CommandExited
    /\ stream' = [stream EXCEPT !.pipes = @ - 1]
    /\ UNCHANGED <<PipelineFrame, written, deployed, sub>>

\* streamPipe: Run has closed the pipe under the scanner; the read error is
\* sent as an error event and the lines not read are lost
StreamPipe_Error ==
    /\ stream.pipes > 0
    /\ CommandExited
    /\ CanSend
    /\ stream' = [Send(stream, "error") EXCEPT
                     !.pipes = @ - 1,
                     !.lines = IF stream.pipes = 1 THEN 0 ELSE @]
    /\ UNCHANGED <<PipelineFrame, written, deployed, sub>>

\* the consumer goroutine: an event is taken from the channel and written to
\* the client; it returns after an error or complete event (terminal: the
\* stage of that event)
Consumer_Receive ==
    /\ stream.consumer = "running"
    /\ stream.channel # <<>>
    /\ stream' = [stream EXCEPT
                     !.channel = Tail(@),
                     !.consumer = IF Head(stream.channel) \in {"error", "complete"}
                                  THEN "exited" ELSE @,
                     !.terminal = IF Head(stream.channel) \in {"error", "complete"}
                                  THEN Head(stream.channel) ELSE @]
    /\ UNCHANGED <<PipelineFrame, written, deployed, sub>>

\* the consumer goroutine: ctx.Done() (the request context is cancelled when
\* the client has gone)
Consumer_Done ==
    /\ stream.consumer = "running"
    /\ stream.client = "gone"
    /\ stream' = [stream EXCEPT !.consumer = "exited"]
    /\ UNCHANGED <<PipelineFrame, written, deployed, sub>>

\* the client closes the connection
Client_Disconnect ==
    /\ stream.client = "reading"
    /\ stream.pc \notin {"idle", "returned"}
    /\ stream' = [stream EXCEPT !.client = "gone"]
    /\ UNCHANGED <<PipelineFrame, written, deployed, sub>>

\* the steps of the handler and of its goroutines
HandlerSteps(s) ==
    \/ DeployHandler_Start(s)
    \/ DeployHandler_Error(s)
    \/ DeployHandler_Upload(s)
    \/ DeployHandler_Preparing(s)
    \/ DeployHandler_Prepare(s)
    \/ DeployHandler_Building(s)
    \/ DeployHandler_Build(s)
    \/ DeployHandler_Creating(s)
    \/ CreateApp(s)
    \/ CreateAppStart(s)
    \/ AppUpgrade(s)
    \/ UpgradeSweep(s)
    \/ ContainerUpgrade(s)
    \/ UpgradeStart(s)
    \/ UpgradeWait(s)
    \/ UpgradeSwapProxy(s)
    \/ UpgradeDeleteOld(s)
    \/ UpgradeHandOff(s)
    \/ DeployHandler_Final(s)
    \/ DeployHandler_Return(s)

\* one deploy client with its event stream, and the drains
NextEvents ==
    \/ \E s \in Client, cfg \in Configs : DeployHandler_Lock(s, cfg)
    \/ \E s \in Client : DeployHandler_Start(s)
    \/ \E s \in Client : DeployHandler_Error(s)
    \/ \E s \in Client : DeployHandler_Upload(s)
    \/ \E s \in Client : DeployHandler_Preparing(s)
    \/ \E s \in Client : DeployHandler_Prepare(s)
    \/ \E s \in Client : DeployHandler_Building(s)
    \/ \E s \in Client : DeployHandler_Build(s)
    \/ \E s \in Client : DeployHandler_Creating(s)
    \/ \E s \in Client : CreateApp(s)
    \/ \E s \in Client : CreateAppStart(s)
    \/ \E s \in Client : AppUpgrade(s)
    \/ \E s \in Client : UpgradeSweep(s)
    \/ \E s \in Client : ContainerUpgrade(s)
    \/ \E s \in Client : UpgradeStart(s)
    \/ \E s \in Client : UpgradeWait(s)
    \/ \E s \in Client : UpgradeSwapProxy(s)
    \/ \E s \in Client : UpgradeDeleteOld(s)
    \/ \E s \in Client : UpgradeHandOff(s)
    \/ \E s \in Client : DeployHandler_Final(s)
    \/ \E s \in Client : DeployHandler_Return(s)
    \/ StreamPipe_Line
    \/ StreamPipe_EOF
    \/ StreamPipe_Error
    \/ Consumer_Receive
    \/ Consumer_Done
    \/ Client_Disconnect
    \/ \E i \in 1..Len(drains) : GracefulShutdown_Expire(i)
    \/ \E i \in 1..Len(drains) : GracefulShutdown_Poll(i)
    \/ \E i \in 1..Len(drains) : GracefulShutdown_Remove(i)

SpecEvents == Init /\ [][NextEvents]_vars

\* the goroutines of the daemon are scheduled fairly: the handler, its
\* streamPipes and its consumer each take their next step when they can;
\* nothing is assumed of the client
SpecEventsLive ==
    /\ SpecEvents
    /\ \A s \in Client : WF_vars(HandlerSteps(s))
    /\ WF_vars(StreamPipe_Line)
    /\ WF_vars(StreamPipe_EOF \/ StreamPipe_Error)
    /\ WF_vars(Consumer_Receive)
    /\ WF_vars(Consumer_Done)

\* C11: every pipeline that holds the deployment lock terminates and
\* releases it, whatever the client does with the event stream
C11_LockReleased ==
    \A n \in {Web, NoName} : (n \in deployed) ~> (n \notin deployed)

\* C19: a deploy whose config lacks the name, the url or the port is
\* answered 400, creates or changes no catalog row, registry entry, router
\* entry, runtime object or staged file, and leaves no lock entry behind
C19_InvalidConfigRejected ==
    [][(stream' # stream /\ ConfigInvalid(stream'.cfg)) =>
          /\ UNCHANGED <<dbVars, rtVars, appManager, deployment, container, proxies,
                         router, written>>
          /\ stream'.pc = "returned" =>
                /\ stream'.status = 400
                /\ stream'.cfg.Name \notin deployed']_vars

\* ------------------------------------------- the events the client sees (C21)
\* the handler s has sent its last event and the consumer has written a
\* terminal event to a client that is still reading
StreamEnded(s) ==
    /\ stream.pc = "wait"
    /\ sub[s].pc = "release"
    /\ stream.consumer = "exited"
    /\ stream.client = "reading"

\* C21: the events of an admitted pipeline reach the client in the order they
\* are sent and end with exactly one terminal event, complete when the
\* pipeline succeeded and error when it failed; the consumer writes nothing
\* after a terminal event, and a successful pipeline never writes error
C21_TerminalEvent ==
    /\ stream.terminal # "none" => stream.consumer = "exited"
    /\ \A s \in Client :
          /\ StreamEnded(s) => stream.terminal = sub[s].result
          /\ (stream.pc = "pipeline" /\ sub[s].pc = "release"
                 /\ sub[s].result = "complete") => stream.terminal # "error"

\* ------------------------------------------------ quiescent states (C22)
\* no deploy handler is running and no drain is pending
Quiescent ==
    /\ daemon = "up"
    /\ \A s \in Submitters : sub[s].pc \in {"idle", "done"}
    /\ \A i \in 1..Len(drains) : drains[i].pc = "done"

\* the container rows of deployment row id did that are marked head
HeadRows(did) == {r \in dbContainers : r.deployment_id = did /\ r.head}

\* C22: when no operation is in progress every app has exactly one
\* deployment, the one its deployment_id references (catalog and registry),
\* and when the status of that deployment is running it has exactly one
\* head container (row and object) and the runtime reports it running
C22_OneDeploymentOneHead ==
    Quiescent =>
       /\ \A a \in dbApps :
             Cardinality({d \in dbDeployments : d.id = a.deployment_id}) = 1
       /\ \A n \in Names :
             appManager[n].present =>
                LET d == deployment[n] IN
                /\ d.ID = appManager[n].DeploymentID
                /\ DeploymentStatus(d) = "running" =>
                      /\ Cardinality(HeadRows(d.ID)) = 1
                      /\ \A r \in HeadRows(d.ID) :
                            /\ r.container_id = d.Head
                            /\ ContainerStatus(r.container_id) = "running"
                      /\ {c \in SeqToSet(d.Containers) : container[c].Head} = {d.Head}

\* ------------------------------------------- two apps and their urls (C23)
Other   == <<"other">>
Apps    == {Web, Other}
AppUrls == {Url(n) : n \in Apps}

\* a daemon with an empty catalog that serves two apps and two hosts
InitUrl ==
    /\ rtContainers = <<>> /\ rtVolumes = <<>>
    /\ dbApps = {} /\ dbDeployments = {} /\ dbContainers = {} /\ dbVolumes = {}
    /\ dbSeq = [apps |-> 0, deployments |-> 0, containers |-> 0, volumes |-> 0]
    /\ daemon = "up" /\ crashes = 0
    /\ appManager = [n \in Apps |-> NoApp]
    /\ deployment = [n \in Apps |-> NoDeployment]
    /\ container = [c \in CIDs |-> NoContainerObj]
    /\ proxies = <<>>
    /\ router = [h \in AppUrls |-> NoName]
    /\ deployed = {}
    /\ sub = [s \in Submitters |-> IdleSub]
    /\ req = [r \in Requests |-> NewReq]
    /\ drains = <<>>
    /\ gatePassed = {} /\ routedTo = {} /\ retiredBy = [c \in CIDs |-> NilC]
    /\ killedInFlight = FALSE /\ stragglers = {}
    /\ InitAux

\* one deploy client that deploys either app at either url, the drains, and
\* the delete requests
NextUrl ==
    \/ \E s \in Client, n \in Apps, u \in AppUrls : StartDeploymentAt(s, n, u)
    \/ \E s \in Client : DeployBuild(s)
    \/ \E s \in Client : CreateApp(s)
    \/ \E s \in Client : CreateAppStart(s)
    \/ \E s \in Client : AppUpgrade(s)
    \/ \E s \in Client : UpgradeSweep(s)
    \/ \E s \in Client : ContainerUpgrade(s)
    \/ \E s \in Client : UpgradeStart(s)
    \/ \E s \in Client : UpgradeWait(s)
    \/ \E s \in Client : UpgradeSwapProxy(s)
    \/ \E s \in Client : UpgradeDeleteOld(s)
    \/ \E s \in Client : UpgradeHandOff(s)
    \/ \E s \in Client : CompleteDeployment(s)
    \/ \E i \in 1..Len(drains) : GracefulShutdown_Expire(i)
    \/ \E i \in 1..Len(drains) : GracefulShutdown_Poll(i)
    \/ \E i \in 1..Len(drains) : GracefulShutdown_Remove(i)
    \/ \E n \in Apps : DeleteDeployHandler(n)

SpecUrl == InitUrl /\ [][NextUrl]_vars

\* C23: when no operation is in progress no two deployments of the registry
\* have the same url, and the host key of the url of a live deployment of
\* the registry (one with a LiveProxy bound) maps to that deployment
C23_UrlUnique ==
    Quiescent =>
       /\ \A m, n \in Apps :
             (m # n /\ appManager[m].present /\ appManager[n].present) =>
                deployment[m].URL # deployment[n].URL
       /\ \A n \in Apps :
             (appManager[n].present /\ deployment[n].Proxy # NilP) =>
                router[deployment[n].URL] = n

\* ------------------------------------------- catalog before registry (C24)
\* the catalog rows of app n: its app row, the row of its deployment and the
\* container rows of that deployment
AppRows(n, apps)   == {a \in apps : a.name = n}
DeploymentRows(n, deps)  == {d \in deps : d.id = deployment[n].ID}
ContainerRows(n, conts)  == {r \in conts : r.deployment_id = deployment[n].ID}

\* C24: in every step of a running daemon that removes an app from the
\* registry its app, deployment and container rows are deleted by then; in
\* every step that adds an app to the registry its rows are in the catalog
\* by then; and a container that becomes the head of a deployment of the
\* registry, or the target of the router, has its row in the catalog by then
C24_CatalogFirst ==
    [][daemon = "up" /\ daemon' = "up" =>
         \A n \in Names :
            /\ (appManager[n].present /\ ~appManager'[n].present) =>
                  /\ AppRows(n, dbApps') = {}
                  /\ DeploymentRows(n, dbDeployments') = {}
                  /\ ContainerRows(n, dbContainers') = {}
            /\ (~appManager[n].present /\ appManager'[n].present) =>
                  /\ \E a \in dbApps' : a.name = n /\ a.id = appManager'[n].ID
                  /\ \E d \in dbDeployments' : d.id = appManager'[n].DeploymentID
            /\ (appManager'[n].present /\ deployment'[n].Head # deployment[n].Head) =>
                  \E r \in dbContainers' : r.container_id = deployment'[n].Head /\ r.head
            /\ LET h  == RoutedHead(router, deployment, proxies, Url(n))
                   h2 == RoutedHead(router', deployment', proxies', Url(n))
               IN (h2 # h /\ h2 # NilC) =>
                     \E r \in dbContainers' : r.container_id = h2]_vars

\* ------------------------------------------- startup reconstruction (C25)
\* the step in which NewServer has run AppManager.Init
Started == daemon = "down" /\ daemon' # "down"

\* the catalog names exactly one head for every app
OneHeadEach == \A a \in dbApps : Cardinality(InitHeads(a)) = 1

\* C25: a startup over a catalog in which some deployment has several heads
\* aborts the daemon; a startup over a catalog with one head per deployment
\* brings the daemon up with every app of the catalog in the registry, with
\* the deployment, containers, volumes and head of its rows, and with a
\* router entry and a LiveProxy on its head exactly when its status at
\* startup is running
C25_StartupReconstruction ==
    [][Started =>
         /\ (\E a \in dbApps : Cardinality(InitHeads(a)) > 1) => daemon' = "fatal"
         /\ OneHeadEach =>
               /\ daemon' = "up"
               /\ \A a \in dbApps :
                     /\ appManager'[a.name].present
                     /\ deployment'[a.name] = [InitDeployment(a) EXCEPT
                                                  !.Proxy = deployment'[a.name].Proxy]
                     /\ \A r \in InitHeads(a) :
                           /\ deployment'[a.name].Head = r.container_id
                           /\ container'[r.container_id].Volumes = InitVolumes(r.container_id)
                     /\ (DeploymentStatus(InitDeployment(a)) = "running") <=>
                           (RoutedHead(router', deployment', proxies', Url(a.name))
                               = deployment'[a.name].Head)]_vars

\* ------------------------------------------------ gate before routing (C26)
\* the containers created by Container.Upgrade
UpgradeCreated == {c \in 1..Len(rtContainers) : rtContainers[c].by = "Upgrade"}

\* C26: every container the router forwards a host to, if it was created by
\* an upgrade, has passed the health gate of that upgrade
C26_RoutedOnlyIfGated ==
    \A c \in RoutedHeads(router, deployment, proxies) :
       c \in UpgradeCreated => c \in gatePassed

\* ------------------------------------------------------ orphan sweep (C27)
\* Container.Upgrade when the INSERT of the container row fails after
\* CreateDockerContainer has created the runtime container: the error is
\* returned, the pipeline fails, the runtime container stays without a row
\* and outside deployment.Containers
ContainerUpgrade_InsertFails(s) ==
    LET n   == sub[s].name
        c   == container[deployment[n].Head]
        cid == Len(rtContainers) + 1
    IN
    /\ daemon = "up"
    /\ sub[s].pc = "container_upgrade"
    /\ c.Volumes # <<>>
    /\ cid \in CIDs
    /\ \E healthy \in BOOLEAN :
         rtContainers' = Append(rtContainers,
                            [name |-> n, status |-> "created", healthy |-> healthy,
                             volume |-> c.Volumes[1].VolumeID, by |-> "Upgrade"])
    /\ sub' = Fail(s)
    /\ UNCHANGED <<auxVars, rtVolumes, dbVars, daemon, crashes, memVars, req, drains, histVars>>

\* one deploy client and the drains, with pipelines that fail between the
\* creation of the runtime container and the commit of its row
NextOrphan ==
    \/ \E s \in Client, n \in Names : StartDeployment(s, n)
    \/ \E s \in Client : DeployBuild(s)
    \/ \E s \in Client : CreateApp(s)
    \/ \E s \in Client : CreateAppStart(s)
    \/ \E s \in Client : AppUpgrade(s)
    \/ \E s \in Client : UpgradeSweep(s)
    \/ \E s \in Client : ContainerUpgrade(s)
    \/ \E s \in Client : ContainerUpgrade_InsertFails(s)
    \/ \E s \in Client : UpgradeStart(s)
    \/ \E s \in Client : UpgradeWait(s)
    \/ \E s \in Client : UpgradeSwapProxy(s)
    \/ \E s \in Client : UpgradeDeleteOld(s)
    \/ \E s \in Client : UpgradeHandOff(s)
    \/ \E s \in Client : CompleteDeployment(s)
    \/ \E i \in 1..Len(drains) : GracefulShutdown_Expire(i)
    \/ \E i \in 1..Len(drains) : GracefulShutdown_Poll(i)
    \/ \E i \in 1..Len(drains) : GracefulShutdown_Remove(i)

SpecOrphan == Init /\ [][NextOrphan]_vars

\* the runtime containers of app n whose row was never committed: in the
\* runtime, without a row, and not retired by an upgrade that deleted a row
Orphans(n) ==
    {c \in 1..Len(rtContainers) :
        /\ RtExists(c)
        /\ rtContainers[c].name = n
        /\ retiredBy[c] = NilC
        /\ ~ \E r \in dbContainers : r.container_id = c}

\* C27: when the latest deploy of an app has ended with complete and every
\* drain is over, no runtime container of the app that an earlier pipeline
\* created without committing its row is left: the head is the only runtime
\* container of the app
C27_OrphansReaped ==
    \A s \in Client :
       (/\ sub[s].pc = "done" /\ sub[s].result = "complete"
        /\ \A i \in 1..Len(drains) : drains[i].pc = "done") =>
          /\ Orphans(sub[s].name) = {}
          /\ findExistingDockerContainers(sub[s].name) \subseteq {deployment[sub[s].name].Head}

\* ------------------------------------------------------ cancellation (C28)
\* the deploy context is a child of the request context (StartDeployment):
\* it is cancelled when the client's connection closes
Cancelled == stream.client = "gone"

\* the position of the pipeline of handler s: the stage of the handler, or
\* inside CreateApp / App.Upgrade the step of that call
Position(s) ==
    IF stream.pc = "pipeline" THEN sub[s].pc
    ELSE IF stream.pc \in {"prepare", "build"} THEN stream.pc
    ELSE "handler"

\* the positions at which the pipeline waits on the context: the wait for the
\* prepare and build subprocesses, the inspects of Deployment.Status and of
\* the health gate, and the poll of the health gate
SuspensionPoints == {"prepare", "build", "upgrade", "wait", "wait_get"}

\* the client closes the connection while the pipeline runs: the request
\* context and the deploy context are cancelled; cancelAt keeps the
\* suspension point the pipeline was at in that moment, if any
Cancel(s) ==
    /\ stream.client = "reading"
    /\ stream.pc \notin {"idle", "returned"}
    /\ stream' = [stream EXCEPT !.client = "gone", !.cancelAt = IF Position(s) \in SuspensionPoints
                                                             THEN Position(s) ELSE "other"]
    /\ UNCHANGED <<PipelineFrame, written, deployed, sub>>

\* the steps of CreateApp and App.Upgrade that begin with a docker call made
\* with the deploy context
CtxStages == {"create_start", "upgrade", "sweep", "container_upgrade", "start", "wait"}

\* such a step entered with a cancelled context: the docker call (inspect,
\* list, create, start) or the select of the health gate returns the
\* context's error and the pipeline fails
CtxAbort(s) ==
    /\ daemon = "up"
    /\ Cancelled
    /\ stream.pc = "pipeline"
    /\ sub[s].pc \in CtxStages
    /\ sub' = Fail(s)
    /\ UNCHANGED <<PipelineFrame, written, deployed, stream>>

\* CreateApp entered with a cancelled context: CreateDeployment inserts the
\* deployment row without the context, then CreateDockerVolume fails
CreateApp_Cancelled(s) ==
    LET u   == sub[s].url
        did == dbSeq.deployments + 1
    IN
    /\ daemon = "up"
    /\ Cancelled
    /\ stream.pc = "pipeline"
    /\ sub[s].pc = "create"
    /\ IF \E d \in dbDeployments : d.url = u
       THEN UNCHANGED <<dbDeployments, dbSeq>>
       ELSE /\ dbDeployments' = dbDeployments \cup {[id |-> did, url |-> u, port |-> sub[s].port]}
            /\ dbSeq' = [dbSeq EXCEPT !.deployments = did]
    /\ sub' = Fail(s)
    /\ UNCHANGED <<auxVars, rtVars, dbApps, dbContainers, dbVolumes, daemon, crashes, memVars,
                   req, drains, histVars>>

\* the steps of CreateApp and App.Upgrade that begin with a docker call,
\* entered with a live context
CtxLive(s) ==
    /\ ~Cancelled
    /\ \/ CreateApp(s)
       \/ CreateAppStart(s)
       \/ AppUpgrade(s)
       \/ UpgradeSweep(s)
       \/ ContainerUpgrade(s)
       \/ UpgradeStart(s)

\* WaitForDockerContainer, one poll, first half: the select finds the
\* context live and ContainerInspect answers; a container that is not
\* running is polled until the deadline and the gate fails
UpgradeWait_Inspect(s) ==
    LET c == sub[s].newContainer IN
    /\ daemon = "up"
    /\ ~Cancelled
    /\ sub[s].pc = "wait"
    /\ IF RtExists(c) /\ rtContainers[c].status = "running"
       THEN sub' = [sub EXCEPT ![s].pc = "wait_get"]
       ELSE sub' = Fail(s)
    /\ UNCHANGED <<auxVars, rtVars, dbVars, daemon, crashes, memVars, req, drains, histVars>>

\* WaitForDockerContainer, one poll, second half: http.Get on the container,
\* which is not bound to the context; a 200 passes the gate, anything else
\* is polled again until the context is done and the gate fails
UpgradeWait_Get(s) ==
    LET c == sub[s].newContainer IN
    /\ daemon = "up"
    /\ sub[s].pc = "wait_get"
    /\ IF HealthGatePasses(c)
       THEN /\ gatePassed' = gatePassed \cup {c}
            /\ sub' = [sub EXCEPT ![s].pc = "swap"]
       ELSE /\ sub' = Fail(s)
            /\ UNCHANGED gatePassed
    /\ UNCHANGED <<auxVars, rtVars, dbVars, daemon, crashes, memVars, req, drains,
                   routedTo, retiredBy, killedInFlight, stragglers>>

\* one deploy client with its event stream and the cancellation of its
\* context, and the drains
NextCancel ==
    \/ \E s \in Client, cfg \in Configs : DeployHandler_Lock(s, cfg)
    \/ \E s \in Client : DeployHandler_Start(s)
    \/ \E s \in Client : DeployHandler_Error(s)
    \/ \E s \in Client : DeployHandler_Upload(s)
    \/ \E s \in Client : DeployHandler_Preparing(s)
    \/ \E s \in Client : DeployHandler_Prepare(s)
    \/ \E s \in Client : DeployHandler_Building(s)
    \/ \E s \in Client : DeployHandler_Build(s)
    \/ \E s \in Client : DeployHandler_Creating(s)
    \/ \E s \in Client : CtxLive(s)
    \/ \E s \in Client : CtxAbort(s)
    \/ \E s \in Client : CreateApp_Cancelled(s)
    \/ \E s \in Client : UpgradeWait_Inspect(s)
    \/ \E s \in Client : UpgradeWait_Get(s)
    \/ \E s \in Client : UpgradeSwapProxy(s)
    \/ \E s \in Client : UpgradeDeleteOld(s)
    \/ \E s \in Client : UpgradeHandOff(s)
    \/ \E s \in Client : DeployHandler_Final(s)
    \/ \E s \in Client : DeployHandler_Return(s)
    \/ \E s \in Client : Cancel(s)
    \/ StreamPipe_Line
    \/ StreamPipe_EOF
    \/ StreamPipe_Error
    \/ Consumer_Receive
    \/ Consumer_Done
    \/ \E i \in 1..Len(drains) : GracefulShutdown_Expire(i)
    \/ \E i \in 1..Len(drains) : GracefulShutdown_Poll(i)
    \/ \E i \in 1..Len(drains) : GracefulShutdown_Remove(i)

SpecCancel == Init /\ [][NextCancel]_vars

\* C28: once the deploy context was cancelled at a suspension point, the
\* handler only goes on to its error event and its return, and the pipeline
\* only to its failure: no later stage is entered, no cutover and no deletion
\* of old rows happens, and the deploy does not end with complete
C28_CancelAborts ==
    [][stream.cancelAt \in SuspensionPoints =>
         /\ stream'.pc \in {stream.pc, "error", "wait", "returned"}
         /\ \A s \in Client :
               /\ sub'[s].pc \in {sub[s].pc, "release", "done", "idle"}
               /\ sub'[s].result # "complete"
         /\ \A n \in Names : deployment'[n].Proxy = deployment[n].Proxy
         /\ dbContainers' = dbContainers]_vars

\* -------------------------------------------------------- event queue (C29)
\* DeployHandler: the preparing event and the two go streamPipe statements;
\* a goroutine adds itself to the wait group only when it first runs
DeployHandler_PreparingGo(s) ==
    /\ stream.pc = "preparing"
    /\ CanSend
    /\ \E k \in 0..MaxLines :
         stream' = [Send(stream, "preparing") EXCEPT !.pc = "prepare",
                                                     !.spawned = @ + 2, !.lines = @ + k]
    /\ UNCHANGED <<PipelineFrame, written, deployed, sub>>

\* DeployHandler: the building event and the two go streamPipe statements
DeployHandler_BuildingGo(s) ==
    /\ stream.pc = "building"
    /\ CanSend
    /\ \E k \in 0..MaxLines :
         stream' = [Send(stream, "building") EXCEPT !.pc = "build",
                                                    !.spawned = @ + 2, !.lines = @ + k]
    /\ UNCHANGED <<PipelineFrame, written, deployed, sub>>

\* streamPipe: the goroutine runs its first statement, wg.Add(1)
StreamPipe_Add ==
    /\ stream.spawned > 0
    /\ stream' = [stream EXCEPT !.spawned = @ - 1, !.pipes = @ + 1]
    /\ UNCHANGED <<PipelineFrame, written, deployed, sub>>

\* DeployHandler, the deferred calls: wg.Wait returns when the counter is
\* zero (the consumer and every streamPipe that has added itself have
\* returned), then close(eventChannel) and CompleteDeployment; the
\* streamPipes that have not yet run are left behind with the closed channel
DeployHandler_ReturnClose(s) ==
    /\ stream.pc = "wait"
    /\ stream.consumer = "exited"
    /\ stream.pipes = 0
    /\ deployed' = deployed \ {stream.cfg.Name}
    /\ sub' = [sub EXCEPT ![s] = [IdleSub EXCEPT !.pc = "done", !.name = sub[s].name,
                                                 !.result = sub[s].result]]
    /\ stream' = [NoStream EXCEPT !.pc = "returned", !.cfg = stream.cfg,
                                  !.status = stream.status, !.n = stream.n,
                                  !.late = stream.spawned]
    /\ UNCHANGED <<PipelineFrame, written>>

\* streamPipe of a handler that has returned: the command has exited and Wait
\* has closed the pipe, so the scanner fails and the error event is sent on
\* the closed channel; the send panics in a goroutine of its own and the
\* daemon process dies
StreamPipe_Late ==
    /\ daemon = "up"
    /\ stream.late > 0
    /\ daemon' = "fatal"
    /\ stream' = [stream EXCEPT !.late = @ - 1, !.pc = "panic"]
    /\ UNCHANGED <<rtVars, dbVars, crashes, appManager, deployment, container,
                   proxies, router, req, drains, histVars, admin, statusIn, statusOut, tar,
                   written, deployed, sub>>

\* the first deploy submitted to a daemon
FirstDeploy(s, cfg) == stream.n = 0 /\ DeployHandler_Lock(s, cfg)

\* the steps of the handler of a first deploy and of its goroutines
QueueSteps(s) ==
    \/ DeployHandler_Start(s)
    \/ DeployHandler_Error(s)
    \/ DeployHandler_Upload(s)
    \/ DeployHandler_PreparingGo(s)
    \/ DeployHandler_Prepare(s)
    \/ DeployHandler_BuildingGo(s)
    \/ DeployHandler_Build(s)
    \/ DeployHandler_Creating(s)
    \/ CreateApp(s)
    \/ CreateAppStart(s)
    \/ DeployHandler_Final(s)
    \/ DeployHandler_ReturnClose(s)

\* one first deploy with its event channel, its consumer and its streamPipes
NextQueue ==
    \/ \E s \in Client, cfg \in Configs : FirstDeploy(s, cfg)
    \/ \E s \in Client : DeployHandler_Start(s)
    \/ \E s \in Client : DeployHandler_Error(s)
    \/ \E s \in Client : DeployHandler_Upload(s)
    \/ \E s \in Client : DeployHandler_PreparingGo(s)
    \/ \E s \in Client : DeployHandler_Prepare(s)
    \/ \E s \in Client : DeployHandler_BuildingGo(s)
    \/ \E s \in Client : DeployHandler_Build(s)
    \/ \E s \in Client : DeployHandler_Creating(s)
    \/ \E s \in Client : CreateApp(s)
    \/ \E s \in Client : CreateAppStart(s)
    \/ \E s \in Client : DeployHandler_Final(s)
    \/ \E s \in Client : DeployHandler_ReturnClose(s)
    \/ StreamPipe_Add
    \/ StreamPipe_Late
    \/ StreamPipe_Line
    \/ StreamPipe_EOF
    \/ StreamPipe_Error
    \/ Consumer_Receive
    \/ Consumer_Done
    \/ Client_Disconnect

SpecQueue == Init /\ [][NextQueue]_vars

\* the goroutines are scheduled fairly; nothing is assumed of the client
SpecQueueLive ==
    /\ SpecQueue
    /\ \A s \in Client : WF_vars(QueueSteps(s))
    /\ WF_vars(StreamPipe_Add)
    /\ WF_vars(StreamPipe_Late)
    /\ WF_vars(StreamPipe_Line)
    /\ WF_vars(StreamPipe_EOF \/ StreamPipe_Error)
    /\ WF_vars(Consumer_Receive)
    /\ WF_vars(Consumer_Done)

\* C29, producers: no streamPipe sends on the channel after the handler has
\* closed it
C29_NoSendAfterClose == stream.pc # "panic"

\* C29, writer: while the client reads, the writer returns only after it has
\* written the terminal event, and the events sent before it are consumed
C29_WriterDrains ==
    (stream.consumer = "exited" /\ stream.client = "reading") =>
       stream.terminal \in {"error", "complete"}

\* C29: the event channel is closed when the handler returns and no producer
\* sends on it afterwards; the writer returns only after the terminal event
C29_QueueProtocol == C29_NoSendAfterClose /\ C29_WriterDrains

\* C29, wait: the handler's wait for the writer and the streamPipes completes
C29_WaitCompletes == (stream.pc = "wait") ~> (stream.pc # "wait")

\* ------------------------------------------------------ graceful drain (C30)
\* a variant of the removal loop that returns at the first error
GracefulShutdown_RemoveFails_Return(i) ==
    /\ daemon = "up"
    /\ i \in 1..Len(drains)
    /\ drains[i].pc = "remove"
    /\ drains[i].conts # <<>>
    /\ drains' = [drains EXCEPT ![i].failed = @ \cup {Head(drains[i].conts)},
                                ![i].pc = "done"]
    /\ UNCHANGED <<auxVars, rtVars, dbVars, daemon, crashes, memVars, sub, req, histVars>>

\* GracefulShutdown: RemoveDockerContainer on the next old container returns
\* an error (ContainerStop fails, or the stop succeeds and ContainerRemove
\* fails); the error is logged and the loop goes on with the next container
GracefulShutdown_RemoveFails(i) ==
    /\ daemon = "up"
    /\ i \in 1..Len(drains)
    /\ drains[i].pc = "remove"
    /\ drains[i].conts # <<>>
    /\ LET c == Head(drains[i].conts) IN
       /\ \E stopped \in BOOLEAN :
            /\ rtContainers' = IF stopped THEN StopAll(rtContainers, <<c>>) ELSE rtContainers
            /\ killedInFlight' =
                  (killedInFlight \/
                     (/\ stopped
                      /\ RtExists(c)
                      /\ ~drains[i].expired
                      /\ \E r \in Requests : req[r].pc = "upstream" /\ req[r].target = c))
       /\ drains' = [drains EXCEPT ![i].conts = Tail(@),
                                   ![i].failed = @ \cup {c},
                                   ![i].pc = IF Tail(drains[i].conts) = <<>>
                                             THEN "done" ELSE "remove"]
    /\ UNCHANGED <<auxVars, rtVolumes, dbVars, daemon, crashes, memVars, sub, req,
                   gatePassed, routedTo, retiredBy, stragglers>>

\* one deploy client, one proxied request, and the drains with removals that
\* can fail
NextDrain ==
    \/ \E s \in Client, n \in Names : StartDeployment(s, n)
    \/ \E s \in Client : DeployBuild(s)
    \/ \E s \in Client : CreateApp(s)
    \/ \E s \in Client : CreateAppStart(s)
    \/ \E s \in Client : AppUpgrade(s)
    \/ \E s \in Client : UpgradeSweep(s)
    \/ \E s \in Client : ContainerUpgrade(s)
    \/ \E s \in Client : UpgradeStart(s)
    \/ \E s \in Client : UpgradeWait(s)
    \/ \E s \in Client : UpgradeSwapProxy(s)
    \/ \E s \in Client : UpgradeDeleteOld(s)
    \/ \E s \in Client : UpgradeHandOff(s)
    \/ \E s \in Client : CompleteDeployment(s)
    \/ \E i \in 1..Len(drains) : GracefulShutdown_Expire(i)
    \/ \E i \in 1..Len(drains) : GracefulShutdown_Poll(i)
    \/ \E i \in 1..Len(drains) : GracefulShutdown_Remove(i)
    \/ \E i \in 1..Len(drains) : GracefulShutdown_RemoveFails(i)
    \/ \E r \in Probe, h \in Hosts : ServeHTTP_Load(r, h)
    \/ \E r \in Probe : ServeHTTP_Increment(r)
    \/ \E r \in Probe : ServeHTTP_Dispatch(r)
    \/ \E r \in Probe : ServeHTTP_Response(r)

SpecDrain == Init /\ [][NextDrain]_vars

\* a drain goroutine is started by each upgrade that cuts over
DrainIds == 1..MaxContainers

\* the drain goroutines run: the deadline of the grace period passes (the
\* context of GracefulShutdown has a timeout) and each RemoveDockerContainer
\* returns; nothing is assumed of the requests in flight
SpecDrainLive ==
    /\ SpecDrain
    /\ \A i \in DrainIds : WF_vars(GracefulShutdown_Expire(i))
    /\ \A i \in DrainIds : WF_vars(GracefulShutdown_Remove(i) \/ GracefulShutdown_RemoveFails(i))

\* C30, termination: every drain that was started reaches its end
C30_DrainTerminates ==
    \A i \in DrainIds :
       (i <= Len(drains)) ~> (i <= Len(drains) /\ drains[i].pc = "done")

\* C30, polling: a drain leaves its polling loop only when the counter of
\* its LiveProxy is zero or its grace period has expired, and goes on to the
\* removals
C30_StopsPolling ==
    [][\A i \in 1..Len(drains) :
          (drains[i].pc = "wait" /\ drains'[i].pc # "wait") =>
             /\ DrainCounterIsZero(drains[i]) \/ drains'[i].expired
             /\ drains'[i].pc = "remove"]_vars

\* C30, removals: a drain that has ended has tried every container of its
\* list: each one is out of the runtime or its removal failed and was logged
C30_EveryContainerTried ==
    \A i \in 1..Len(drains) :
       drains[i].pc = "done" =>
          \A c \in SeqToSet(drains[i].old) : ~RtExists(c) \/ c \in drains[i].failed

\* C30, outcome: a step of a drain leaves the handlers and the outcome they
\* returned as they are
C30_OutcomeKept ==
    [][(\E i \in 1..Len(drains) : drains'[i] # drains[i]) => sub' = sub]_vars

\* C30: every graceful drain terminates; it stops polling when the in-flight
\* counter of the old LiveProxy is zero or the grace period has expired, then
\* attempts the stop and removal of every old container of its list, going
\* on past the removals that fail, and never changes the outcome returned
\* for the deployment
C30_GracefulDrain ==
    /\ C30_DrainTerminates
    /\ C30_StopsPolling
    /\ [](C30_EveryContainerTried)
    /\ C30_OutcomeKept

\* a drain of two old containers has ended after its grace period expired
\* with requests in flight, past a removal that failed
C30_DrainEndedPastError ==
    \E i \in 1..Len(drains) :
       /\ drains[i].pc = "done"
       /\ drains[i].expired
       /\ ~DrainCounterIsZero(drains[i])
       /\ Len(drains[i].old) = 2
       /\ Head(drains[i].old) \in drains[i].failed

\* ------------------------------------------------------ first deploy (C31)
\* the step is CreateApp inserting the app row of handler s
CreateApp_Committed(s) ==
    /\ sub[s].pc = "create"
    /\ sub'[s].pc = "create_start"

\* the step is CreateApp returning the app to handler s: Deployment.Start
\* and AppManager.AddApp have succeeded
CreateApp_Returned(s) ==
    /\ sub[s].pc = "create_start"
    /\ sub'[s].pc = "release"
    /\ sub'[s].result = "complete"

\* the catalog holds one deployment row, one head container row and one
\* volume row (mounted at /workspace) for the deployment d, with the url u
\* and the port p
FirstDeployRows(d, u, p, deps, conts, vols) ==
    /\ Cardinality({r \in deps : r.id = d.ID}) = 1
    /\ \A r \in deps : r.id = d.ID => r.url = u /\ r.port = p
    /\ Cardinality({r \in conts : r.deployment_id = d.ID}) = 1
    /\ \A r \in conts : r.deployment_id = d.ID =>
         /\ r.head
         /\ r.container_id = d.Head
         /\ Cardinality({v \in vols : v.container_id = r.container_id}) = 1
         /\ \A v \in vols : v.container_id = r.container_id => v.mountpoint = "/workspace"

\* C31: when CreateApp returns the app of a first deploy, the catalog holds
\* exactly one app row of that name, one deployment row with the url and the
\* port of the flux.json, one container row marked head and one volume row
\* mounted at /workspace owned by that container; the container is running,
\* the router forwards the url to a LiveProxy targeting it and the registry
\* holds the app; and the step that inserts the app row, as the step that
\* adds the registry entry, finds the deployment, container and volume rows
\* in the catalog
C31_FirstDeploy ==
    [][\A s \in Client :
         LET n == sub[s].name IN
         /\ CreateApp_Committed(s) =>
              /\ FirstDeployRows(deployment'[n], sub[s].url, sub[s].port,
                                 dbDeployments', dbContainers', dbVolumes')
              /\ ~appManager'[n].present
         /\ CreateApp_Returned(s) =>
              /\ FirstDeployRows(deployment[n], sub[s].url, sub[s].port,
                                 dbDeployments, dbContainers, dbVolumes)
              /\ FirstDeployRows(deployment'[n], sub[s].url, sub[s].port,
                                 dbDeployments', dbContainers', dbVolumes')
              /\ Cardinality(AppRows(n, dbApps')) = 1
              /\ \A a \in AppRows(n, dbApps') : a.deployment_id = deployment'[n].ID
              /\ rtContainers'[deployment'[n].Head].status = "running"
              /\ RoutedHead(router', deployment', proxies', sub[s].url) = deployment'[n].Head
              /\ deployment'[n].URL = sub[s].url
              /\ deployment'[n].Port = sub[s].port
              /\ ~appManager[n].present
              /\ appManager'[n].present
              /\ appManager'[n].DeploymentID = deployment'[n].ID]_vars

\* a first deploy has returned its app
C31_FirstDeployReturned ==
    \E s \in Client :
        /\ sub[s].pc = "release"
        /\ sub[s].result = "complete"
        /\ gatePassed = {}
        /\ appManager[sub[s].name].present
        /\ Cardinality(dbContainers) = 1
        /\ Len(rtContainers) = 1

\* ---------------------------------------------------- upgrade commit (C32)
\* the step is Deployment.Upgrade returning nil to handler s
Upgrade_Returned(s) ==
    /\ sub[s].pc = "handoff"
    /\ sub'[s].pc = "release"
    /\ sub'[s].result = "complete"

\* C32: when Deployment.Upgrade returns nil, the containers of the
\* deployment are exactly the new head, in memory (Containers) and in the
\* catalog (one container row, the row of the head, marked head); the rows
\* of the old containers are deleted and the old containers are handed to
\* the drain of the previous LiveProxy or removed; and the deployment row
\* carries the url and the port of the new flux.json
C32_UpgradeCommit ==
    [][\A s \in Client :
         Upgrade_Returned(s) =>
            LET d == deployment'[sub[s].name] IN
            /\ d.Containers = <<d.Head>>
            /\ {r.container_id : r \in {x \in dbContainers' : x.deployment_id = d.ID}}
                  = {d.Head}
            /\ Cardinality({x \in dbContainers' : x.deployment_id = d.ID}) = 1
            /\ \A x \in dbContainers' : x.deployment_id = d.ID => x.head
            /\ \A c \in SeqToSet(sub[s].oldContainers) :
                  /\ ~ \E x \in dbContainers' : x.container_id = c
                  /\ \/ ~RtExists(c)'
                     \/ \E i \in 1..Len(drains') : c \in SeqToSet(drains'[i].old)
            /\ \A r \in dbDeployments' :
                  r.id = d.ID => r.url = sub[s].url /\ r.port = sub[s].port
            /\ \E r \in dbDeployments' : r.id = d.ID]_vars

\* ------------------------------------------- start and stop guards (C33)
\* the step is the handler op answering a request for app n
Handled(op, n) ==
    /\ admin'.n = admin.n + 1
    /\ admin'.op = op
    /\ admin'.name = n

\* every container of the deployment of app n is reported in status st by
\* the runtime
AllContainers(n, st) ==
    /\ deployment[n].Containers # <<>>
    /\ \A c \in SeqToSet(deployment[n].Containers) : ContainerStatus(c) = st

\* the request changed nothing: no container was started or stopped, and
\* the router, the LiveProxy, the registry and the catalog are as before
NothingChanged ==
    UNCHANGED <<rtVars, dbVars, memVars, drains, sub, req>>

\* C33: POST /start on an app of the registry whose containers are all
\* running answers 400, POST /stop on an app whose containers are all exited
\* answers 400, and both answer 404 for a name that is not in the registry;
\* in each of these cases, and whenever one of the two answers 400 or 404,
\* no container is started or stopped and the router, the LiveProxy, the
\* registry and the catalog are unchanged
C33_StartStopGuards ==
    [][\A n \in Names :
         /\ Handled("start", n) /\ appManager[n].present /\ AllContainers(n, "running")
               => admin'.code = 400
         /\ Handled("stop", n) /\ appManager[n].present /\ AllContainers(n, "exited")
               => admin'.code = 400
         /\ (Handled("start", n) \/ Handled("stop", n)) /\ ~appManager[n].present
               => admin'.code = 404
         /\ (Handled("start", n) \/ Handled("stop", n)) /\ admin'.code \in {400, 404}
               => NothingChanged]_vars

\* POST /stop has answered 400 for an app whose containers are all exited
C33_StopRefused ==
    /\ admin.op = "stop"
    /\ admin.code = 400
    /\ appManager[admin.name].present
    /\ AllContainers(admin.name, "exited")
    /\ deployment[admin.name].Proxy = NilP

\* POST /start has answered 400 for an app whose containers are all running
C33_StartRefused ==
    /\ admin.op = "start"
    /\ admin.code = 400
    /\ AllContainers(admin.name, "running")

\* POST /start or /stop has answered 404
C33_Unknown ==
    /\ admin.op \in {"start", "stop"}
    /\ admin.code = 404

\* ------------------------------------------------ registry entries (C34)
\* the deployment of every app of the registry has containers and a head
RegistryValid ==
    \A n \in Names :
        appManager[n].present =>
            /\ deployment[n].Containers # <<>>
            /\ deployment[n].Head # NilC

\* the Deployment objects AddApp is applied to: any head, any containers
Deployments ==
    {[NoDeployment EXCEPT !.live = TRUE, !.ID = 1, !.Head = h, !.Containers = q] :
        h \in {NilC} \cup CIDs,
        q \in {<<>>} \cup {<<c>> : c \in CIDs}
                     \cup {<<c, e>> : c \in CIDs, e \in CIDs}}

\* AppManager.AddApp applied to an app named n with deployment d: the
\* registry entry of n then leads to d
AddApp_Apply(n, d) ==
    LET app == [present |-> TRUE, ID |-> 1, DeploymentID |-> d.ID]
        r   == AddApp(appManager, n, app, d)
    IN
    /\ admin.n < MaxAdminOps
    /\ appManager' = r.apps
    /\ deployment' = IF r.refused THEN deployment ELSE [deployment EXCEPT ![n] = d]
    /\ admin' = [op |-> IF r.refused THEN "AddApp panic" ELSE "AddApp", name |-> n,
                 code |-> 0, n |-> admin.n + 1]
    /\ UNCHANGED <<rtVars, dbVars, daemon, crashes, container, proxies, router, deployed,
                   sub, req, drains, histVars, stream, statusIn, statusOut, tar, written>>

\* AppManager.RemoveApp
RemoveApp_Apply(n) ==
    /\ admin.n < MaxAdminOps
    /\ appManager' = [appManager EXCEPT ![n] = NoApp]
    /\ admin' = [op |-> "RemoveApp", name |-> n, code |-> 0, n |-> admin.n + 1]
    /\ UNCHANGED <<rtVars, dbVars, daemon, crashes, deployment, container, proxies, router,
                   deployed, sub, req, drains, histVars, stream, statusIn, statusOut, tar,
                   written>>

NextAddApp ==
    \/ \E n \in Names, d \in Deployments : AddApp_Apply(n, d)
    \/ \E n \in Names : RemoveApp_Apply(n)

SpecAddApp == Init /\ [][NextAddApp]_vars

WebApi     == <<"web", "api">>
PrefixApps == {Web, WebApi}

InitPrefix ==
    /\ rtContainers = <<>> /\ rtVolumes = <<>>
    /\ dbApps = {} /\ dbDeployments = {} /\ dbContainers = {} /\ dbVolumes = {}
    /\ dbSeq = [apps |-> 0, deployments |-> 0, containers |-> 0, volumes |-> 0]
    /\ daemon = "up" /\ crashes = 0
    /\ appManager = [n \in PrefixApps |-> NoApp]
    /\ deployment = [n \in PrefixApps |-> NoDeployment]
    /\ container = [c \in CIDs |-> NoContainerObj]
    /\ proxies = <<>>
    /\ router = [h \in AppUrls |-> NoName]
    /\ deployed = {}
    /\ sub = [s \in Submitters |-> IdleSub]
    /\ req = [r \in Requests |-> NewReq]
    /\ drains = <<>>
    /\ gatePassed = {} /\ routedTo = {} /\ retiredBy = [c \in CIDs |-> NilC]
    /\ killedInFlight = FALSE /\ stragglers = {}
    /\ InitAux

NextPrefix ==
    \/ \E s \in Client, n \in PrefixApps : StartDeployment(s, n)
    \/ \E s \in Client : DeployBuild(s)
    \/ \E s \in Client : CreateApp(s)
    \/ \E s \in Client : CreateAppStart(s)
    \/ \E s \in Client : AppUpgrade(s)
    \/ \E s \in Client : UpgradeSweep(s)
    \/ \E s \in Client : ContainerUpgrade(s)
    \/ \E s \in Client : UpgradeStart(s)
    \/ \E s \in Client : UpgradeWait(s)
    \/ \E s \in Client : UpgradeSwapProxy(s)
    \/ \E s \in Client : UpgradeDeleteOld(s)
    \/ \E s \in Client : UpgradeHandOff(s)
    \/ \E s \in Client : CompleteDeployment(s)
    \/ \E i \in 1..Len(drains) : GracefulShutdown_Expire(i)
    \/ \E i \in 1..Len(drains) : GracefulShutdown_Poll(i)
    \/ \E i \in 1..Len(drains) : GracefulShutdown_Remove(i)

SpecPrefix == InitPrefix /\ [][NextPrefix]_vars

\* the runtime container c is lost in the step: removed from the runtime,
\* or its row deleted from the catalog
Lost(c) ==
    \/ RtExists(c) /\ ~RtExists(c)'
    \/ /\ \E r \in dbContainers : r.container_id = c
       /\ ~ \E r \in dbContainers' : r.container_id = c

\* C35: a container is removed from the runtime, and its row is deleted,
\* only by an upgrade of its own app: the container was retired by a head of
\* the same app, and no step of the pipeline of app A loses a container of
\* another app, also when the snapshot taken under the prefix "A-" holds
\* containers of the other app
C35_OwnContainersOnly ==
    [][\A c \in CIDs :
         Lost(c) =>
            /\ retiredBy'[c] # NilC
            /\ rtContainers[retiredBy'[c]].name = rtContainers[c].name
            /\ \A s \in Client :
                  sub'[s] # sub[s] => rtContainers[c].name = sub[s].name]_vars

\* an upgrade of web has returned: its snapshot held the container of
\* web-api, which is still running with its row in the catalog
C35_UpgradedBesideWebApi ==
    \E s \in Client :
        /\ sub[s].pc = "release"
        /\ sub[s].result = "complete"
        /\ sub[s].name = Web
        /\ sub[s].oldContainers # <<>>
        /\ \E c \in sub[s].existingContainers :
              /\ rtContainers[c].name = WebApi
              /\ rtContainers[c].status = "running"
              /\ \E r \in dbContainers : r.container_id = c

\* ------------------------------------- running state and catalog (C36)
\* C36: when Deployment.Upgrade returns nil, the URL and the Port of the
\* deployment in memory are the url and the port of its deployment row, and
\* the router holds the deployment under the url of the row: the running
\* state is the state AppManager.Init would rebuild from the catalog
C36_RunningStateIsCatalog ==
    [][\A s \in Client :
         Upgrade_Returned(s) =>
            LET d == deployment'[sub[s].name] IN
            \A r \in dbDeployments' :
               r.id = d.ID =>
                  /\ d.URL = r.url
                  /\ d.Port = r.port
                  /\ router'[r.url] = sub[s].name]_vars

\* ------------------------------------------- failed pipelines (C37)
\* a deploy of app n cannot complete in this state: for a name that is not
\* in the registry DeployHandler calls CreateApp, whose CreateDeployment
\* fails when a deployment row holds the url (deployments.url is UNIQUE);
\* for an app of the registry it calls App.Upgrade, which returns the error
\* of Deployment.Status
Wedged(n) ==
    IF appManager[n].present
    THEN DeploymentStatus(deployment[n]) \in StatusErrors
    ELSE \E d \in dbDeployments : d.url = Url(n)

\* handler s completes a pipeline in the step
Completes(s) ==
    /\ sub'[s].pc = "release"
    /\ sub'[s].result = "complete"
    /\ sub[s].pc # "release"

\* between pipelines a wedged app stays wedged, and no pipeline that starts
\* on a wedged app completes
WedgedForGood ==
    [][\A n \in Names :
         Wedged(n) /\ (\A s \in Submitters : sub[s].name = n => ~InFlight(s))
            => /\ Wedged(n)'
               /\ \A s \in Submitters : ~(Completes(s) /\ sub'[s].name = n)]_vars

\* C37: after a failed first deploy and after a failed upgrade (a failed
\* health gate included) a later deploy of the same name can complete:
\* the url of the app is free in the catalog when the app is not in the
\* registry, and the status of the deployment, as GET /apps queries it, is
\* not an error
C37_NoWedge ==
    \A s \in Submitters :
        FailedFirstDeploy(s) \/ FailedUpgrade(s) => ~Wedged(sub[s].name)

\* ---------------------------------------- references of the catalog (C38)
\* C38: when no operation is in progress, every volume row names the
\* container of a container row and every container row names the id of a
\* deployment row
C38_RowsReferToRows ==
    Quiescent =>
        /\ \A v \in dbVolumes : \E r \in dbContainers : r.container_id = v.container_id
        /\ \A r \in dbContainers : \E d \in dbDeployments : d.id = r.deployment_id

\* --------------------------------- delete during an upgrade (C39)
\* the positions of a handler inside App.Upgrade
UpgradeStages ==
    {"upgrade", "sweep", "container_upgrade", "start", "wait", "swap", "delete", "handoff"}

\* handler s is inside App.Upgrade and its app has left the registry: the
\* app was deleted while the pipeline was in flight
DeletedInFlight(s) ==
    /\ sub[s].pc \in UpgradeStages
    /\ ~appManager[sub[s].name].present

\* C39: a delete may interleave with the pipeline of the same app, and the
\* pipeline of an app that was deleted during its upgrade creates nothing:
\* its steps add no container row and no deployment row, create and start
\* no runtime container, and add no router entry
C39_DeletedStaysDeleted ==
    [][\A s \in Client :
         DeletedInFlight(s) /\ sub'[s] # sub[s] =>
            /\ dbContainers' \subseteq dbContainers
            /\ dbDeployments' \subseteq dbDeployments
            /\ Len(rtContainers') = Len(rtContainers)
            /\ \A c \in 1..Len(rtContainers) :
                  rtContainers'[c].status = "running" => rtContainers[c].status = "running"
            /\ \A h \in Hosts : router'[h] # NoName => router[h] # NoName]_vars
====
